---- MODULE Spec2Model ----
(***************************************************************************)
(* Model of the block-processing core of NeuralAmpModelerCore:             *)
(*   - dsp::DSP            output storage and pointer bookkeeping          *)
(*   - dsp::History        single-channel history ring with rewind         *)
(*   - ImpulseResponse     FIR convolution over the history ring           *)
(*   - recursive_linear_filter::Base   IIR difference equation             *)
(*   - noise_gate::Trigger / Gain      gate state machine and gain stage   *)
(*                                                                         *)
(* Samples are integers.  Arithmetic on them is exact; an explicit         *)
(* narrowing cast in the source is modelled by ToFloat.  Every unit is     *)
(* studied under its own specification (SpecDSP, SpecIR, SpecRLF,          *)
(* SpecGate for the Trigger, SpecGain for the Gain, SpecChain for a        *)
(* Trigger with its listeners); the variables of the other units keep      *)
(* their initial value.  Further specifications study one operation or one *)
(* kind of host: SpecWeights (construction from raw audio), SpecLoad       *)
(* (construction from a file), SpecRewind (_RewindHistory alone),          *)
(* SpecIRFault (zero-channel calls), SpecRLFAny (NaN inputs), SpecGateLive *)
(* (a one-channel Trigger that is always called again), SpecSteady         *)
(* (repeated shapes on each class of unit), SpecCoeff (SetParams of the    *)
(* coefficient calculators), SpecPeaking (a Peaking filter with gainDB =   *)
(* 0), SpecStale (a Gain unit called without a Trigger call before),       *)
(* SpecHold (a Trigger whose parameters change between blocks) and         *)
(* SpecSplit (a Trigger with a fixed channel count).                       *)
(***************************************************************************)
EXTENDS Integers, Sequences, FiniteSets, TLC

VARIABLES
  \* dsp::DSP (the unit under study in each specification)
  mOutputs,             \* std::vector<std::vector<SampleType>>
  mOutputPointers,      \* [allocated, slots]: the SampleType** array
  mOutputPointersSize,  \* size_t
  call,                 \* the last Process call: unit, shape, fault
  \* dsp::History / ImpulseResponse
  mHistory, mHistoryIndex, mHistoryRequired, mWeight,
  mRawAudio, mSampleRate, mWavState,
  sampleType,           \* the SampleType the unit is instantiated with
  fed,                  \* every channel-0 input sample given so far
  hist,                 \* bookkeeping of the last call: rewinds, growth
  \* recursive_linear_filter::Base and the coefficient calculators
  filterClass,          \* the class the filter was constructed as
  mInputCoefficients, mOutputCoefficients,
  mInputHistory, mOutputHistory, mInputStart, mOutputStart,
  rlf,                  \* per channel: the samples given and returned so far
  \* noise_gate::Trigger (its output storage is mOutputs above)
  mParams, mState, mLevel, mGainReductionDB, mLastGainReductionDB,
  mTimeHeld, mGainListeners,
  gains,                \* the noise_gate::Gain units, by identity
  gate                  \* bookkeeping of the last Trigger call

dspVars  == <<mOutputs, mOutputPointers, mOutputPointersSize>>
histVars == <<mHistory, mHistoryIndex, mHistoryRequired, mWeight, mRawAudio,
              mSampleRate, mWavState, sampleType, fed, hist>>
rlfVars  == <<filterClass, mInputCoefficients, mOutputCoefficients, mInputHistory,
              mOutputHistory, mInputStart, mOutputStart, rlf>>
gateVars == <<mParams, mState, mLevel, mGainReductionDB, mLastGainReductionDB,
              mTimeHeld, mGainListeners, gains, gate>>
vars     == <<dspVars, call, histVars, rlfVars, gateVars>>

(***************************************************************************)
(* Bounds of the model.                                                    *)
(***************************************************************************)
MaxChannels == 3
MaxFrames   == 3
\* SpecIR: the longest block and the samples fed in a run.
MaxBlock == 2
MaxFed == 14
\* SpecRewind: the longest ring.
MaxRing == 8
\* SpecWeights: the longest impulse that is enumerated sample by sample.
MaxRawLength == 3
\* SpecRLF: the longest block and the samples given per channel in a run.
MaxRLFBlock == 2
MaxRLFSamples == 4
\* SpecRLFAny: the samples given per channel in a run.
MaxAnySamples == 3
\* SpecGate, SpecChain, SpecGain: the longest block; SpecChain: the Process
\* calls of a run.
MaxGateFrames == 2
MaxChainCalls == 3

\* Program constants.
MaxLength == 8192           \* ImpulseResponse::mMaxLength
FloatExactMax == 16777216   \* 2^24: float holds every integer up to here

Channels == 0..MaxChannels
Frames   == 0..MaxFrames

\* The sample values a caller hands in (SpecDSP).
Samples == {1, 2, 3}

(***************************************************************************)
(* Helpers on sequences.                                                   *)
(***************************************************************************)
\* std::vector::resize(n): keeps the first n elements, value-initialises
\* (zero) the new ones.
Resize(v, n, zero) == [i \in 1..n |-> IF i <= Len(v) THEN v[i] ELSE zero]

\* std::fill(begin, end, x)
Fill(v, x) == [i \in 1..Len(v) |-> x]

(***************************************************************************)
(* dsp::DSP                                                                *)
(***************************************************************************)
NullPointers == [allocated |-> FALSE, slots |-> <<>>]

\* _GetNumChannels / _GetNumFrames (coredsp.h): the shape of mOutputs.
GetNumChannels(outs) == Len(outs)
GetNumFrames(outs) == IF GetNumChannels(outs) > 0 THEN Len(outs[1]) ELSE 0

\* _AllocateOutputPointers: throws when the array is still allocated.
\* A slot holds 0 until _GetPointers sets it (indeterminate after new[]).
ReallocFault(ptrs) == ptrs.allocated
AllocateOutputPointers(ptrs, numChannels) ==
  [allocated |-> TRUE, slots |-> [c \in 1..numChannels |-> 0]]

DeallocateOutputPointersKept(ptrs) == ptrs

\* _DeallocateOutputPointers
DeallocateOutputPointers(ptrs) == NullPointers

\* _ResizePointers: (pointers, size) after the call.
ResizePointers(ptrs, size, numChannels) ==
  IF size = numChannels
    THEN [ptrs |-> ptrs, size |-> size, fault |-> FALSE]
    ELSE LET freed == DeallocateOutputPointers(ptrs)
         IN  [ptrs  |-> AllocateOutputPointers(freed, numChannels),
              size  |-> numChannels,
              fault |-> ReallocFault(freed)]

\* The condition under which _PrepareBuffers resizes every channel.
ResizeFramesMutant(oldChannels, oldFrames, numChannels, numFrames) ==
  oldFrames # numFrames

ResizeFrames(oldChannels, oldFrames, numChannels, numFrames) ==
  (oldChannels # numChannels) \/ (oldFrames # numFrames)

\* DSP::_PrepareBuffers: the output storage after the call.
PrepareOutputs(outs, numChannels, numFrames) ==
  LET oldFrames == GetNumFrames(outs)
      oldChannels == GetNumChannels(outs)
      resizeChannels == oldChannels # numChannels
      resizeFrames == ResizeFrames(oldChannels, oldFrames, numChannels, numFrames)
      chans == IF resizeChannels THEN Resize(outs, numChannels, <<>>) ELSE outs
  IN  IF resizeFrames
        THEN [c \in 1..Len(chans) |->
                IF c <= numChannels THEN Resize(chans[c], numFrames, 0) ELSE chans[c]]
        ELSE chans

\* DSP::_PrepareBuffers: the pointer array after the call.  A channel whose
\* storage was resized leaves its slot stale (0) until _GetPointers.
PreparePointers(outs, ptrs, size, numChannels, numFrames) ==
  LET oldChannels == GetNumChannels(outs)
      r == IF oldChannels # numChannels
             THEN ResizePointers(ptrs, size, numChannels)
             ELSE [ptrs |-> ptrs, size |-> size, fault |-> FALSE]
      stale == ResizeFrames(oldChannels, GetNumFrames(outs), numChannels, numFrames)
  IN  [r EXCEPT !.ptrs.slots =
         [c \in 1..Len(r.ptrs.slots) |-> IF stale THEN 0 ELSE r.ptrs.slots[c]]]

\* DSP::_GetPointers: slot c is set to the storage of channel c.
GetPointers(outs, ptrs) ==
  [ptrs EXCEPT !.slots =
     [c \in 1..Len(ptrs.slots) |-> IF c <= GetNumChannels(outs) THEN c ELSE ptrs.slots[c]]]

NoCall == [unit |-> "none", numChannels |-> 0, numFrames |-> 0, fault |-> "none"]

DSPInit ==
  /\ mOutputs = <<>>
  /\ mOutputPointers = NullPointers
  /\ mOutputPointersSize = 0
  /\ call = NoCall

(***************************************************************************)
(* The state of a unit right after its base constructors, which is also    *)
(* the state it keeps in the specifications of the other units.            *)
(***************************************************************************)
\* No call yet; ring and cursor are the ring and the cursor a rewind found.
NoHist == [rewinds |-> 0, grown |-> FALSE, lens |-> {}, gen |-> "ramp",
           ring |-> <<>>, cursor |-> 0]

HistIdle ==
  /\ mHistory = <<>>
  /\ mHistoryIndex = 0
  /\ mHistoryRequired = 0
  /\ mWeight = <<>>
  /\ mRawAudio = <<>>
  /\ mSampleRate = 48000
  /\ mWavState = "ERROR_OTHER"
  /\ sampleType = "double"
  /\ fed = <<>>
  /\ hist = NoHist

NoRLF == [chan |-> <<>>, counts |-> {}]

RLFIdle ==
  /\ filterClass = "Base"
  /\ mInputCoefficients = <<>>
  /\ mOutputCoefficients = <<>>
  /\ mInputHistory = <<>>
  /\ mOutputHistory = <<>>
  /\ mInputStart = 0
  /\ mOutputStart = 0
  /\ rlf = NoRLF

\* The Gain units of the model, by identity.
Gains == {1, 2}

\* A Gain unit after construction: no matrix, no output storage.
NewGain == [mGainReductionDB |-> <<>>, mOutputs |-> <<>>,
            mOutputPointers |-> NullPointers, mOutputPointersSize |-> 0]

\* No Trigger call yet: nothing published, no channel.
NoGate == [count |-> 0, calls |-> 0, oldChannels |-> 0, oldFrames |-> 0, before |-> <<>>,
           begin |-> <<>>, steps |-> <<>>, published |-> {}, inputs |-> <<>>]

\* Trigger::Trigger(): threshold -60 dB, ratio 1.5 (in hundredths).
DefaultParams == [threshold |-> -60, ratio |-> 150,
                  openTime |-> 1, holdTime |-> 1, closeTime |-> 1]

GateIdle ==
  /\ mParams = DefaultParams
  /\ mState = <<>>
  /\ mLevel = <<>>
  /\ mGainReductionDB = <<>>
  /\ mLastGainReductionDB = <<>>
  /\ mTimeHeld = <<>>
  /\ mGainListeners = {}
  /\ gains = [g \in Gains |-> NewGain]
  /\ gate = NoGate

(***************************************************************************)
(* Sample conversion.                                                      *)
(***************************************************************************)
RECURSIVE FloatStep(_, _)
\* The spacing of single-precision values around magnitude m: 1 up to
\* 2^24, then doubling with every further binary order of magnitude.
FloatStep(m, limit) == IF m <= limit THEN 1 ELSE 2 * FloatStep(m, 2 * limit)

Abs(x) == IF x < 0 THEN -x ELSE x

\* (float)x for an integral double x: round to the nearest representable
\* single-precision value, ties to the even significand.
ToFloat(x) ==
  LET m == Abs(x)
      step == FloatStep(m, FloatExactMax)
      lo == (m \div step) * step
      rem == m - lo
      up == IF 2 * rem > step THEN TRUE
            ELSE IF 2 * rem < step THEN FALSE
            ELSE ((lo \div step) % 2) = 1
      r == IF up THEN lo + step ELSE lo
  IN  IF x < 0 THEN -r ELSE r

(***************************************************************************)
(* dsp::History                                                            *)
(***************************************************************************)
\* 0-based access to a std::vector held as a sequence.
At(v, i) == v[i + 1]
Put(v, i, x) == [v EXCEPT ![i + 1] = x]
InRange(v, i) == 0 <= i /\ i < Len(v)

Max(a, b) == IF a >= b THEN a ELSE b
Min(a, b) == IF a <= b THEN a ELSE b

\* History::_AdvanceHistoryIndex
AdvanceHistoryIndexMutant(index, bufferSize) == index

AdvanceHistoryIndex(index, bufferSize) == index + bufferSize

EnsureHistorySizeEager(history, index, required, bufferSize) ==
  LET repeatSize == Max(bufferSize, required)
      requiredHistoryArraySize == 10 * repeatSize
  IN  IF Len(history) <= requiredHistoryArraySize
        THEN [history |-> Fill(Resize(history, requiredHistoryArraySize, 0), 0),
              index |-> required, grown |-> TRUE]
        ELSE [history |-> history, index |-> index, grown |-> FALSE]

EnsureHistorySizeMutant(history, index, required, bufferSize) ==
  LET repeatSize == Max(bufferSize, required)
      requiredHistoryArraySize == 10 * repeatSize
  IN  IF Len(history) < requiredHistoryArraySize
        THEN [history |-> Fill(Resize(history, requiredHistoryArraySize, 0), 0),
              index |-> 0, grown |-> TRUE]
        ELSE [history |-> history, index |-> index, grown |-> FALSE]

\* History::_EnsureHistorySize: ring, cursor and whether the ring grew.
EnsureHistorySize(history, index, required, bufferSize) ==
  LET repeatSize == Max(bufferSize, required)
      requiredHistoryArraySize == 10 * repeatSize
  IN  IF Len(history) < requiredHistoryArraySize
        THEN [history |-> Fill(Resize(history, requiredHistoryArraySize, 0), 0),
              index |-> required, grown |-> TRUE]
        ELSE [history |-> history, index |-> index, grown |-> FALSE]

RECURSIVE RewindLoop(_, _, _, _)
\* The copy loop of _RewindHistory, slot by slot in ascending order.
RewindLoop(history, i, j, required) ==
  IF i >= required THEN history
  ELSE IF InRange(history, i) /\ InRange(history, j)
    THEN RewindLoop(Put(history, i, At(history, j)), i + 1, j + 1, required)
    ELSE RewindLoop(history, i + 1, j + 1, required)

RewindCopyMutant(history, index, required) == history

RewindCopy(history, index, required) ==
  RewindLoop(history, 0, index - required, required)

RECURSIVE RewindLoopDown(_, _, _)
\* The same copy in descending order of the slots.
RewindLoopDown(history, i, j) ==
  IF i < 0 THEN history
  ELSE RewindLoopDown(Put(history, i, At(history, j)), i - 1, j - 1)

RewindHistoryMutant(history, index, required) ==
  [history |-> RewindLoopDown(history, required - 1, index - 1),
   index |-> required]

RewindHistoryKept(history, index, required) ==
  [history |-> RewindCopy(history, index, required), index |-> index]

\* History::_RewindHistory
RewindHistory(history, index, required) ==
  [history |-> RewindCopy(history, index, required), index |-> required]

RECURSIVE WriteLoop(_, _, _, _)
\* The copy loop of _UpdateHistory: block[i] goes to slot j, narrowed to float.
WriteLoop(history, block, i, j) ==
  IF i >= Len(block) THEN history
  ELSE IF InRange(history, j)
    THEN WriteLoop(Put(history, j, ToFloat(At(block, i))), block, i + 1, j + 1)
    ELSE WriteLoop(history, block, i + 1, j + 1)

\* History::_UpdateHistory.  inputs is the block, one sequence per channel.
UpdateHistory(history, index, required, inputs, numChannels, numFrames) ==
  LET e == EnsureHistorySize(history, index, required, numFrames)
      rewind == e.index + numFrames >= Len(e.history)
      r == IF rewind THEN RewindHistory(e.history, e.index, required)
           ELSE [history |-> e.history, index |-> e.index]
  IN  IF numChannels < 1
        THEN [history |-> e.history, index |-> e.index, grown |-> e.grown,
              rewound |-> FALSE, fault |-> "Zero channels?"]
        ELSE [history |-> WriteLoop(r.history, inputs[1], 0, r.index),
              index |-> r.index, grown |-> e.grown,
              rewound |-> rewind, fault |-> "none"]

(***************************************************************************)
(* ImpulseResponse                                                         *)
(***************************************************************************)
\* The gain of _SetWeights, pow(10, -18 * 0.05) * 48000 / mSampleRate, in
\* eighths (pow(10, -0.9) is 0.1259): weights and outputs are in eighths.
WeightGain(sampleRate) == 48000 \div sampleRate

\* size_t arithmetic wraps around; the model keeps 30 bits of it.
SizeModulus == 2^30

SampleTypes == {"float", "double"}
SizeOf(type) == IF type = "float" THEN 4 ELSE 8

\* The SampleType that is left when only the first four bytes of x were
\* copied into a zeroed double: the low half of the significand (little
\* endian), which is zero for every integer below 2^21.
LowBytes(x) == 0

\* memcpy(mResampled.data(), mRawAudio.data(), bytes) into the zeroed
\* mResampled of the same length: the samples that the bytes cover.
Memcpy(source, bytes, type) ==
  [i \in 1..Len(source) |->
     IF i * SizeOf(type) <= bytes THEN source[i]
     ELSE IF (i - 1) * SizeOf(type) < bytes THEN LowBytes(source[i])
     ELSE 0]

\* ImpulseResponse::_SetWeights for equal source and target rates.
SetWeights(rawAudio, sampleRate, type) ==
  LET resampled == Memcpy(rawAudio, SizeOf("float") * Len(rawAudio), type)
      irLength == Min(Len(resampled), MaxLength)
  IN  [weight |-> [j \in 1..irLength |->
                     WeightGain(sampleRate) * resampled[irLength - j + 1]],
       required |-> (irLength - 1) % SizeModulus]

RECURSIVE DotLoop(_, _, _, _)
\* mWeight.dot(input): input is the window of Len(weight) slots from j on.
DotLoop(weight, history, j, k) ==
  IF k >= Len(weight) THEN 0
  ELSE (IF InRange(history, j + k) THEN At(weight, k) * At(history, j + k) ELSE 0)
       + DotLoop(weight, history, j, k + 1)

DotMutant(weight, history, j) == DotLoop(weight, history, j + 1, 0)

Dot(weight, history, j) == DotLoop(weight, history, j, 0)

\* The block a caller hands in: channel 0 carries the stream, every
\* further channel its negation.
Stream(gen, t) == IF gen = "ramp" THEN t + 1 ELSE FloatExactMax + t + 1

InputBlock(gen, from, numChannels, numFrames) ==
  [c \in 1..numChannels |->
     [s \in 1..numFrames |->
        IF c = 1 THEN Stream(gen, from + s - 1) ELSE -Stream(gen, from + s - 1)]]

\* ImpulseResponse::Process
IRProcess(numChannels, numFrames) ==
  LET inputs == InputBlock(hist.gen, Len(fed), numChannels, numFrames)
      prepared == PrepareOutputs(mOutputs, numChannels, numFrames)
      p == PreparePointers(mOutputs, mOutputPointers, mOutputPointersSize,
                           numChannels, numFrames)
      u == UpdateHistory(mHistory, mHistoryIndex, mHistoryRequired,
                         inputs, numChannels, numFrames)
      first == u.index - mHistoryRequired
      mono == [i \in 1..numFrames |-> Dot(mWeight, u.history, first + i - 1)]
      written == [c \in 1..numChannels |-> mono]
  IN  /\ numChannels >= 1
      /\ Len(fed) + numFrames <= MaxFed
      /\ ~p.fault
      /\ u.fault = "none"
      /\ mOutputs' = written
      /\ mOutputPointers' = GetPointers(written, p.ptrs)
      /\ mOutputPointersSize' = p.size
      /\ mHistory' = u.history
      /\ mHistoryIndex' = AdvanceHistoryIndex(u.index, numFrames)
      /\ fed' = fed \o inputs[1]
      /\ hist' = [hist EXCEPT !.rewinds = IF u.rewound THEN Min(@ + 1, 2) ELSE @,
                              !.grown = u.grown,
                              !.lens = @ \cup {numFrames}]
      /\ call' = [unit |-> "ir", numChannels |-> numChannels,
                  numFrames |-> numFrames, fault |-> "none"]
      /\ UNCHANGED <<mHistoryRequired, mWeight, mRawAudio, mSampleRate, mWavState,
                     sampleType, rlfVars, gateVars>>

\* The impulses an engine is constructed from (IRData) and the rates.
Engines == {[raw |-> <<3>>, rate |-> 48000],
            [raw |-> <<2, 1>>, rate |-> 24000],
            [raw |-> <<1, -1, 2>>, rate |-> 48000]}
\* The samples a caller hands in: small integers, or (SampleType double)
\* integers that single precision cannot hold.
Gens == {"ramp", "wide"}
IRChannels == {1, 2}

\* ImpulseResponse(irData, sampleRate) after History() and DSP().
InitIR ==
  /\ DSPInit
  /\ sampleType \in SampleTypes
  /\ \E e \in Engines :
       /\ mRawAudio = e.raw
       /\ mSampleRate = e.rate
       /\ mWeight = SetWeights(e.raw, e.rate, sampleType).weight
       /\ mHistoryRequired = SetWeights(e.raw, e.rate, sampleType).required
  /\ mWavState = "SUCCESS"
  /\ mHistory = <<>>
  /\ mHistoryIndex = 0
  /\ fed = <<>>
  /\ \E g \in Gens :
       /\ g = "wide" => sampleType = "double"
       /\ hist = [NoHist EXCEPT !.gen = g]
  /\ RLFIdle
  /\ GateIdle

NextIR ==
  \E numChannels \in IRChannels, numFrames \in 0..MaxBlock :
    IRProcess(numChannels, numFrames)

SpecIR == InitIR /\ [][NextIR]_vars

(***************************************************************************)
(* History ring between calls.                                             *)
(***************************************************************************)
\* The k-th most recent channel-0 input sample, 0 before the stream began.
Recent(k) == IF k <= Len(fed) THEN fed[Len(fed) - k + 1] ELSE 0

\* The ring slot k places before the write cursor.
Behind(k) == At(mHistory, mHistoryIndex - k)

Stored(u) == IF u >= 0 /\ u < Len(fed) THEN ToFloat(fed[u + 1]) ELSE 0

RECURSIVE RefSum(_, _)
\* Output sample number t of an engine that keeps its whole history:
\* sum over k of mWeight[k] * x[t - historyRequired + k].
RefSum(t, k) ==
  IF k >= Len(mWeight) THEN 0
  ELSE At(mWeight, k) * Stored(t - mHistoryRequired + k) + RefSum(t, k + 1)

Reference(t) == RefSum(t, 0)

\* C3: with one fixed block length, every output sample equals the
\* output of a reference engine that keeps its whole history and never
\* rewinds.
C3_Continuity ==
  (call.unit = "ir" /\ Cardinality(hist.lens) = 1) =>
    \A i \in 1..call.numFrames :
      mOutputs[1][i] = Reference(Len(fed) - call.numFrames + i - 1)

\* The ring has been rewound under one fixed block length, with look-back.
C3_Witness ==
  /\ call.unit = "ir"
  /\ Cardinality(hist.lens) = 1
  /\ hist.rewinds >= 1
  /\ mHistoryRequired >= 1
  /\ call.numFrames >= 1

(***************************************************************************)
(* Impulse response: the result of one Process call.                       *)
(***************************************************************************)
\* The ring slot input sample i (0-based) of the last block was written to.
SlotOf(i) == mHistoryIndex - call.numFrames + i

RECURSIVE WindowSum(_, _)
\* The dot product of the weights with the historyRequired + 1 ring samples
\* that end at slot end: sum over k of mWeight[k] * mHistory[end - required + k].
WindowSum(end, k) ==
  IF k > mHistoryRequired THEN 0
  ELSE At(mWeight, k) * At(mHistory, end - mHistoryRequired + k)
       + WindowSum(end, k + 1)

\* C15: for each frame i of a Process call, output channel 0 holds the dot
\* product of the weights with the historyRequired + 1 ring samples ending
\* at the slot input sample i was written to; every further output channel
\* equals channel 0; no ring slot holds a sample of another input channel.
C15_ProcessResult ==
  call.unit = "ir" =>
    /\ Len(mWeight) = mHistoryRequired + 1
    /\ \A i \in 0..(call.numFrames - 1) :
         /\ InRange(mHistory, SlotOf(i) - mHistoryRequired)
         /\ InRange(mHistory, SlotOf(i))
         /\ At(mHistory, SlotOf(i)) = ToFloat(fed[Len(fed) - call.numFrames + i + 1])
         /\ At(mOutputs[1], i) = WindowSum(SlotOf(i), 0)
    /\ \A c \in 2..call.numChannels : mOutputs[c] = mOutputs[1]
    /\ \A j \in 1..Len(mHistory) :
         mHistory[j] = 0 \/ \E u \in 1..Len(fed) : mHistory[j] = ToFloat(fed[u])

\* Two channels, a two-tap engine whose ring was rewound by this call: the
\* window of the frame spans the slot copied by the rewind and the slot of
\* the new sample.
C15_Witness ==
  /\ call.unit = "ir"
  /\ call.numChannels = 2
  /\ call.numFrames = 1
  /\ mHistoryRequired = 1
  /\ hist.rewinds >= 1
  /\ ~hist.grown
  /\ SlotOf(0) = mHistoryRequired
  /\ At(mHistory, 0) # 0
  /\ mOutputs[2][1] # 0

(***************************************************************************)
(* Impulse response: the slots of the ring a Process call touches.         *)
(***************************************************************************)
\* The ring and the cursor _UpdateHistory writes the block at, for a call
\* of numFrames frames in the present state.
RingAtUpdate(numFrames) ==
  LET e == EnsureHistorySize(mHistory, mHistoryIndex, mHistoryRequired, numFrames)
      rewind == e.index + numFrames >= Len(e.history)
  IN  [capacity |-> Len(e.history),
       rewind |-> rewind,
       found |-> e.index,
       cursor |-> IF rewind
                    THEN RewindHistory(e.history, e.index, mHistoryRequired).index
                    ELSE e.index]

\* _RewindHistory: for (i = 0, j = index - required; i < required; i++, j++)
\* reads slot j and writes slot i.
RewindSlots(r) ==
  IF r.rewind
    THEN UNION {{i, r.found - mHistoryRequired + i} : i \in 0..(mHistoryRequired - 1)}
    ELSE {}

\* _UpdateHistory: for (i = 0, j = index; i < numFrames; i++, j++) writes
\* slot j.
WriteSlots(r, numFrames) == {r.cursor + i : i \in 0..(numFrames - 1)}

\* Process: for (i = 0, j = index - required; i < numFrames; i++, j++) maps
\* the required + 1 slots from j on.
DotSlots(r, numFrames) ==
  {r.cursor - mHistoryRequired + i + k :
     i \in 0..(numFrames - 1), k \in 0..mHistoryRequired}

RingBounds(numFrames) ==
  LET r == RingAtUpdate(numFrames)
  IN  /\ \A slot \in RewindSlots(r) \cup WriteSlots(r, numFrames)
                       \cup DotSlots(r, numFrames) :
           0 <= slot /\ slot < r.capacity
      /\ mHistoryRequired <= r.cursor
      /\ r.cursor + numFrames <= r.capacity
      /\ Len(mHistory') = r.capacity
      /\ r.capacity >= 10 * Max(mHistoryRequired, numFrames)
      /\ r.capacity >= Len(mHistory)

\* C28: for an engine with a non-empty weight vector and Process calls with
\* at least one channel, every ring slot that the call writes, reads in a
\* dot-product window or touches in a rewind lies in [0, capacity); at the
\* dot products historyRequired <= cursor and cursor + numFrames <=
\* capacity; after the call the capacity is at least
\* 10 * max(historyRequired, numFrames), and it never decreases.
C28_RingBounds ==
  [][(call'.unit = "ir" /\ call'.numChannels >= 1 /\ Len(mWeight) >= 1) =>
       RingBounds(call'.numFrames)]_vars

\* A call of one frame on an engine of two taps that found the cursor at
\* the last slot of a ring of 10 slots and rewound it: slot 8 was copied to
\* slot 0, slot 1 was written, and the window read slots 0 and 1.
C28_Witness ==
  /\ call.unit = "ir"
  /\ call.numFrames = 1
  /\ Len(mWeight) = 2
  /\ Len(mHistory) = 10
  /\ hist.rewinds >= 1
  /\ ~hist.grown
  /\ mHistoryIndex = mHistoryRequired + 1
  /\ Len(fed) >= 9

(***************************************************************************)
(* SpecWeights: the construction of an Impulse Response Engine from raw    *)
(* audio whose rate is the target rate.                                    *)
(***************************************************************************)
RawSamples == {-1, 1, 2}
SampleRates == {24000, 48000}

\* An impulse of n samples 1, 2, 3, 4, 5, 1, 2, ...
LongAudio(n) == [i \in 1..n |-> ((i - 1) % 5) + 1]

\* Every impulse of up to MaxRawLength samples, and impulses of just below,
\* exactly and just above the maximum length.
RawAudios ==
  UNION {[1..n -> RawSamples] : n \in 0..MaxRawLength}
    \cup {LongAudio(n) : n \in {MaxLength - 1, MaxLength, MaxLength + 1}}

\* ImpulseResponse(irData, sampleRate) with irData.mRawAudioSampleRate equal
\* to sampleRate.
Construct(rawAudio, sampleRate) ==
  /\ call.unit = "none"
  /\ mRawAudio' = rawAudio
  /\ mSampleRate' = sampleRate
  /\ mWavState' = "SUCCESS"
  /\ mWeight' = SetWeights(rawAudio, sampleRate, sampleType).weight
  /\ mHistoryRequired' = SetWeights(rawAudio, sampleRate, sampleType).required
  /\ call' = [NoCall EXCEPT !.unit = "construct"]
  /\ UNCHANGED <<dspVars, mHistory, mHistoryIndex, sampleType, fed, hist,
                 rlfVars, gateVars>>

InitWeights ==
  /\ DSPInit
  /\ mHistory = <<>>
  /\ mHistoryIndex = 0
  /\ mHistoryRequired = 0
  /\ mWeight = <<>>
  /\ mRawAudio = <<>>
  /\ mSampleRate = 48000
  /\ mWavState = "ERROR_OTHER"
  /\ sampleType \in SampleTypes
  /\ fed = <<>>
  /\ hist = NoHist
  /\ RLFIdle
  /\ GateIdle

NextWeights ==
  \E rawAudio \in RawAudios, sampleRate \in SampleRates :
    Construct(rawAudio, sampleRate)

SpecWeights == InitWeights /\ [][NextWeights]_vars

\* C16: for raw audio of any length N at the target rate the weight vector
\* has length L = min(N, 8192) and weight[L - 1 - i] = gain * raw[i] for
\* every 0 <= i < L, with the same gain for every tap.
C16_Weights ==
  call.unit = "construct" =>
    /\ Len(mWeight) = Min(Len(mRawAudio), MaxLength)
    /\ \A i \in 0..(Len(mWeight) - 1) :
         At(mWeight, Len(mWeight) - 1 - i)
           = WeightGain(mSampleRate) * At(mRawAudio, i)

\* C27: after construction from raw audio of any length N >= 0, the empty
\* impulse included, historyRequired is the weight length minus one as a
\* non-negative count, 0 <= historyRequired <= 8191, without wrap-around of
\* the unsigned word it is computed in.
C27_HistoryRequiredBound ==
  call.unit = "construct" =>
    /\ mHistoryRequired = Len(mWeight) - 1
    /\ 0 <= mHistoryRequired
    /\ mHistoryRequired <= MaxLength - 1

(***************************************************************************)
(* SpecRewind: History::_RewindHistory on a ring of any size with any      *)
(* look-back and any cursor that leaves the look-back behind it.           *)
(***************************************************************************)
\* A ring whose slots all differ: slot i holds i + 1.
Ring(n) == [i \in 1..n |-> i]

InitRewind ==
  /\ DSPInit
  /\ \E n \in 0..MaxRing : mHistory = Ring(n)
  /\ mHistoryRequired \in 0..Len(mHistory)
  /\ mHistoryIndex \in mHistoryRequired..Len(mHistory)
  /\ mWeight = <<>>
  /\ mRawAudio = <<>>
  /\ mSampleRate = 48000
  /\ mWavState = "ERROR_OTHER"
  /\ sampleType \in SampleTypes
  /\ fed = <<>>
  /\ hist = NoHist
  /\ RLFIdle
  /\ GateIdle

\* One call of _RewindHistory.
Rewind ==
  /\ call.unit = "none"
  /\ mHistory' = RewindHistory(mHistory, mHistoryIndex, mHistoryRequired).history
  /\ mHistoryIndex' = RewindHistory(mHistory, mHistoryIndex, mHistoryRequired).index
  /\ hist' = [hist EXCEPT !.ring = mHistory, !.cursor = mHistoryIndex,
                          !.rewinds = 1]
  /\ call' = [NoCall EXCEPT !.unit = "rewind"]
  /\ UNCHANGED <<dspVars, mHistoryRequired, mWeight, mRawAudio, mSampleRate,
                 mWavState, sampleType, fed, rlfVars, gateVars>>

NextRewind == Rewind

SpecRewind == InitRewind /\ [][NextRewind]_vars

\* C17: after a rewind from a cursor at or past historyRequired, the first
\* historyRequired slots hold, in order, what the slots
\* [cursor - historyRequired, cursor) held before, overlapping ranges
\* included, and the cursor equals historyRequired.
C17_RewindPostcondition ==
  call.unit = "rewind" =>
    /\ mHistoryIndex = mHistoryRequired
    /\ Len(mHistory) = Len(hist.ring)
    /\ \A k \in 0..(mHistoryRequired - 1) :
         At(mHistory, k) = At(hist.ring, hist.cursor - mHistoryRequired + k)

\* A rewind whose source range [1, 4) overlaps its destination [0, 3).
C17_Witness ==
  /\ call.unit = "rewind"
  /\ mHistoryRequired = 3
  /\ hist.cursor = 4
  /\ hist.ring = Ring(8)
  /\ mHistory = <<2, 3, 4, 4, 5, 6, 7, 8>>

(***************************************************************************)
(* SpecIRFault: the engine of SpecIR in a host that also calls Process     *)
(* with zero channels.                                                     *)
(***************************************************************************)
\* ImpulseResponse::Process with numChannels = 0: _PrepareBuffers, then
\* _UpdateHistory, which throws after _EnsureHistorySize.
IRFault(numFrames) ==
  LET p == PreparePointers(mOutputs, mOutputPointers, mOutputPointersSize,
                           0, numFrames)
      u == UpdateHistory(mHistory, mHistoryIndex, mHistoryRequired,
                         <<>>, 0, numFrames)
  IN  /\ ~p.fault
      /\ u.fault # "none"
      /\ mOutputs' = PrepareOutputs(mOutputs, 0, numFrames)
      /\ mOutputPointers' = p.ptrs
      /\ mOutputPointersSize' = p.size
      /\ mHistory' = u.history
      /\ mHistoryIndex' = u.index
      /\ hist' = [hist EXCEPT !.grown = u.grown, !.ring = mHistory,
                              !.cursor = mHistoryIndex]
      /\ call' = [unit |-> "ir", numChannels |-> 0, numFrames |-> numFrames,
                  fault |-> u.fault]
      /\ UNCHANGED <<mHistoryRequired, mWeight, mRawAudio, mSampleRate, mWavState,
                     sampleType, fed, rlfVars, gateVars>>

NextIRFault ==
  \/ \E numFrames \in 0..MaxBlock : IRProcess(1, numFrames)
  \/ \E numFrames \in 0..MaxBlock : IRFault(numFrames)

\* The double-precision engines of SpecIR fed the ramp stream.
InitIRFault == InitIR /\ sampleType = "double" /\ hist.gen = "ramp"

SpecIRFault == InitIRFault /\ [][NextIRFault]_vars

\* C18: a call with numChannels = 0 raises the zero-channels fault without
\* writing an input sample into the ring (the ring is as it was, or was
\* grown and zeroed), and leaves historyRequired <= cursor <= ring capacity.
C18_ZeroChannelFault ==
  (call.unit = "ir" /\ call.numChannels = 0) =>
    /\ call.fault = "Zero channels?"
    /\ IF hist.grown
         THEN mHistory = Fill(mHistory, 0)
         ELSE mHistory = hist.ring /\ mHistoryIndex = hist.cursor
    /\ mHistoryRequired <= mHistoryIndex
    /\ mHistoryIndex <= Len(mHistory)

\* The fault raised on an engine that has samples in its ring, the cursor
\* past the look-back, and no growth by the faulting call.
C18_Witness ==
  /\ call.unit = "ir"
  /\ call.numChannels = 0
  /\ call.fault = "Zero channels?"
  /\ ~hist.grown
  /\ mHistoryRequired >= 1
  /\ mHistoryIndex > mHistoryRequired
  /\ Len(fed) >= 2
  /\ At(mHistory, mHistoryIndex - 1) = ToFloat(fed[Len(fed)])

(***************************************************************************)
(* SpecLoad: an engine constructed from a file, then processing.           *)
(***************************************************************************)
\* wav::Load reports a load state and, on SUCCESS, has filled the raw audio.
LoadReturnCodes == {"SUCCESS", "ERROR_OTHER"}

\* ImpulseResponse(fileName, sampleRate) after History() and DSP():
\* _SetWeights runs only when the load succeeded.
InitLoad ==
  /\ DSPInit
  /\ sampleType \in SampleTypes
  /\ mWavState \in LoadReturnCodes
  /\ \E e \in Engines :
       /\ mSampleRate = e.rate
       /\ IF mWavState = "SUCCESS"
            THEN /\ mRawAudio = e.raw
                 /\ mWeight = SetWeights(e.raw, e.rate, sampleType).weight
                 /\ mHistoryRequired = SetWeights(e.raw, e.rate, sampleType).required
            ELSE /\ mRawAudio = <<>>
                 /\ mWeight = <<>>
                 /\ mHistoryRequired = 0
  /\ mHistory = <<>>
  /\ mHistoryIndex = 0
  /\ fed = <<>>
  /\ hist = NoHist
  /\ RLFIdle
  /\ GateIdle

\* mWeight.dot(input) with input a window of size slots: equal sizes give
\* the dot product; with unequal sizes the call breaks the precondition of
\* dot, which a build with assertions stops and a build without them
\* evaluates over the window's size, reading the weights past their end.
DotOutcomes(weight, size, numFrames) ==
  IF Len(weight) = size \/ numFrames = 0
    THEN {"dot"}
    ELSE {"assertion", "read past the end", "dot"}

\* ImpulseResponse::Process on an engine constructed from a file.
LoadedProcess(numChannels, numFrames, outcome) ==
  LET inputs == InputBlock(hist.gen, Len(fed), numChannels, numFrames)
      prepared == PrepareOutputs(mOutputs, numChannels, numFrames)
      p == PreparePointers(mOutputs, mOutputPointers, mOutputPointersSize,
                           numChannels, numFrames)
      u == UpdateHistory(mHistory, mHistoryIndex, mHistoryRequired,
                         inputs, numChannels, numFrames)
      first == u.index - mHistoryRequired
      mono == [i \in 1..numFrames |-> Dot(mWeight, u.history, first + i - 1)]
      written == [c \in 1..numChannels |-> mono]
  IN  /\ call.fault = "none"
      /\ numChannels >= 1
      /\ Len(fed) + numFrames <= MaxFed
      /\ ~p.fault
      /\ u.fault = "none"
      /\ outcome \in DotOutcomes(mWeight, mHistoryRequired + 1, numFrames)
      /\ mOutputs' = IF outcome = "dot" THEN written ELSE prepared
      /\ mOutputPointers' = IF outcome = "dot" THEN GetPointers(written, p.ptrs)
                                               ELSE p.ptrs
      /\ mOutputPointersSize' = p.size
      /\ mHistory' = u.history
      /\ mHistoryIndex' = IF outcome = "dot"
                            THEN AdvanceHistoryIndex(u.index, numFrames)
                            ELSE u.index
      /\ fed' = fed \o inputs[1]
      /\ hist' = [hist EXCEPT !.rewinds = IF u.rewound THEN Min(@ + 1, 2) ELSE @,
                              !.grown = u.grown,
                              !.lens = @ \cup {numFrames}]
      /\ call' = [unit |-> "ir", numChannels |-> numChannels,
                  numFrames |-> numFrames,
                  fault |-> IF outcome = "dot" THEN "none" ELSE outcome]
      /\ UNCHANGED <<mHistoryRequired, mWeight, mRawAudio, mSampleRate, mWavState,
                     sampleType, rlfVars, gateVars>>

NextLoad ==
  \E numChannels \in IRChannels, numFrames \in 0..MaxBlock,
     outcome \in {"dot", "assertion", "read past the end"} :
    LoadedProcess(numChannels, numFrames, outcome)

SpecLoad == InitLoad /\ [][NextLoad]_vars

\* C19: on an engine whose load failed, every Process call with
\* numChannels >= 1 completes without fault and outputs silence.
C19_FailedLoad ==
  (mWavState # "SUCCESS" /\ call.unit = "ir") =>
    /\ call.fault = "none"
    /\ \A c \in 1..Len(mOutputs) : \A i \in 1..Len(mOutputs[c]) :
         mOutputs[c][i] = 0

(***************************************************************************)
(* Floating-point values of the recursive filter: a finite value is an     *)
(* integer of magnitude below Infinity; Infinity, -Infinity and NaN are    *)
(* the IEEE-754 specials.                                                  *)
(***************************************************************************)
Infinity == 10^6
NaN == 2 * Infinity

IsNaN(x) == x = NaN
IsInf(x) == x = Infinity \/ x = -Infinity
IsFinite(x) == ~IsNaN(x) /\ ~IsInf(x)

Sign(x) == IF x < 0 THEN -1 ELSE IF x > 0 THEN 1 ELSE 0

\* a + b
FAdd(a, b) ==
  IF IsNaN(a) \/ IsNaN(b) THEN NaN
  ELSE IF IsInf(a) /\ IsInf(b) THEN (IF a = b THEN a ELSE NaN)
  ELSE IF IsInf(a) THEN a
  ELSE IF IsInf(b) THEN b
  ELSE a + b

\* a * b
FMul(a, b) ==
  IF IsNaN(a) \/ IsNaN(b) THEN NaN
  ELSE IF IsInf(a) \/ IsInf(b)
    THEN (IF a = 0 \/ b = 0 THEN NaN ELSE Sign(a) * Sign(b) * Infinity)
  ELSE a * b

(***************************************************************************)
(* recursive_linear_filter::Base                                           *)
(***************************************************************************)
\* inputStart -= 1; if (inputStart < 0) inputStart = degree - 1;
DecrementStart(start, degree) ==
  IF start - 1 < 0 THEN degree - 1 ELSE start - 1

RECURSIVE Terms(_, _, _, _)
\* sum over i >= from of coefficients[i] * history[(start + i) % degree]
Terms(coefficients, history, start, from) ==
  IF from >= Len(coefficients) THEN 0
  ELSE FAdd(FMul(At(coefficients, from),
                 At(history, (start + from) % Len(coefficients))),
            Terms(coefficients, history, start, from + 1))

\* The input terms: for (i = 0; i < inputDegree; i++)
InputTerms(coefficients, history, start) == Terms(coefficients, history, start, 0)

OutputTermsMutant(coefficients, history, start) ==
  Terms(coefficients, history, start, 0)

\* The output terms: for (i = 1; i < outputDegree; i++)
OutputTerms(coefficients, history, start) == Terms(coefficients, history, start, 1)

NaNGuardMutant(out) == out

\* if (std::isnan(out)) out = 0.0;
NaNGuard(out) == IF IsNaN(out) THEN 0 ELSE out

\* One pass of the frame loop body: st = [inH, outH, inS, outS, out].
FilterSample(st, x) ==
  LET inputDegree == Len(mInputCoefficients)
      outputDegree == Len(mOutputCoefficients)
      inputStart == DecrementStart(st.inS, inputDegree)
      inH == Put(st.inH, inputStart, x)
      outputStart == DecrementStart(st.outS, outputDegree)
      out == NaNGuard(FAdd(InputTerms(mInputCoefficients, inH, inputStart),
                           OutputTerms(mOutputCoefficients, st.outH, outputStart)))
  IN  [inH |-> inH,
       outH |-> IF outputDegree >= 1 THEN Put(st.outH, outputStart, out) ELSE st.outH,
       inS |-> inputStart, outS |-> outputStart,
       out |-> Append(st.out, out)]

RECURSIVE FilterFrames(_, _, _)
\* for (s = 0; s < numFrames; s++) on one channel
FilterFrames(st, block, s) ==
  IF s >= Len(block) THEN st
  ELSE FilterFrames(FilterSample(st, At(block, s)), block, s + 1)

\* The channel loop body: the channel starts from the stored cursors.
FilterChannel(inH, outH, inS, outS, block) ==
  FilterFrames([inH |-> inH, outH |-> outH, inS |-> inS, outS |-> outS,
                out |-> <<>>], block, 0)

Zeros(n) == [i \in 1..n |-> 0]

\* Base::_PrepareBuffers: the histories after the call.
PrepareHistory(history, degree, newChannels, numChannels) ==
  IF newChannels THEN [c \in 1..numChannels |-> Zeros(degree)] ELSE history

\* this->mInputStart = inputStart after the channel loop: the cursor the
\* last channel ended on, the local's initial 0 when there is no channel.
StartAfterMutant(start, ends, numChannels) == start

StartAfterKept(start, ends, numChannels) ==
  IF numChannels = 0 THEN start ELSE ends[numChannels]

StartAfter(start, ends, numChannels) ==
  IF numChannels = 0 THEN 0 ELSE ends[numChannels]

\* Base::Process
RLFProcess(numChannels, numFrames, inputs) ==
  LET newChannels == GetNumChannels(mOutputs) # numChannels
      prepared == PrepareOutputs(mOutputs, numChannels, numFrames)
      p == PreparePointers(mOutputs, mOutputPointers, mOutputPointersSize,
                           numChannels, numFrames)
      inH == PrepareHistory(mInputHistory, Len(mInputCoefficients),
                            newChannels, numChannels)
      outH == PrepareHistory(mOutputHistory, Len(mOutputCoefficients),
                             newChannels, numChannels)
      done == [c \in 1..numChannels |->
                 FilterChannel(inH[c], outH[c], mInputStart, mOutputStart, inputs[c])]
      written == [c \in 1..numChannels |-> done[c].out]
      seg == IF newChannels THEN [c \in 1..numChannels |-> [in |-> <<>>, out |-> <<>>]]
             ELSE rlf.chan
  IN  /\ ~p.fault
      /\ mOutputs' = written
      /\ mOutputPointers' = GetPointers(written, p.ptrs)
      /\ mOutputPointersSize' = p.size
      /\ mInputHistory' = [c \in 1..numChannels |-> done[c].inH]
      /\ mOutputHistory' = [c \in 1..numChannels |-> done[c].outH]
      /\ mInputStart' = StartAfter(mInputStart, [c \in 1..numChannels |-> done[c].inS],
                                   numChannels)
      /\ mOutputStart' = StartAfter(mOutputStart, [c \in 1..numChannels |-> done[c].outS],
                                    numChannels)
      /\ rlf' = [chan |-> [c \in 1..numChannels |->
                             [in |-> seg[c].in \o inputs[c],
                              out |-> seg[c].out \o done[c].out]],
                 counts |-> rlf.counts \cup {numChannels}]
      /\ call' = [unit |-> "rlf", numChannels |-> numChannels,
                  numFrames |-> numFrames, fault |-> "none"]
      /\ UNCHANGED <<filterClass, mInputCoefficients, mOutputCoefficients,
                     histVars, gateVars>>

\* The filters a run is made with: input and output coefficients as set by
\* a coefficient calculator on Base(inputDegree, outputDegree).
Filters == {[b |-> <<2>>, a |-> <<>>],
            [b |-> <<1>>, a |-> <<5, 2>>],
            [b |-> <<1, -1>>, a |-> <<5, 1>>],
            [b |-> <<0, 1, 2>>, a |-> <<5, 1, -1>>]}
RLFChannels == {0, 1, 2}
\* A sample is finite (its number in the stream, so that every finite sample
\* of a channel differs from the others) or infinite.
RLFKinds == {"finite", "infinite"}

\* Channel c of a block is channel 1 scaled by c.
RLFBlock(kinds, from, numChannels) ==
  [c \in 1..numChannels |->
     [s \in 1..Len(kinds) |->
        IF kinds[s] = "infinite" THEN Infinity ELSE c * (from + s)]]

\* The samples channel 1 has been given since the channel count changed.
RLFGiven(numChannels) ==
  IF numChannels = Len(rlf.chan) /\ numChannels > 0 THEN Len(rlf.chan[1].in) ELSE 0

\* Base(inputDegree, outputDegree) followed by SetParams.
InitRLF ==
  /\ DSPInit
  /\ HistIdle
  /\ GateIdle
  /\ filterClass = "Base"
  /\ \E f \in Filters :
       /\ mInputCoefficients = f.b
       /\ mOutputCoefficients = f.a
       /\ mInputStart = Len(f.b)
       /\ mOutputStart = Len(f.a)
  /\ mInputHistory = <<>>
  /\ mOutputHistory = <<>>
  /\ rlf = NoRLF

NextRLF ==
  \E numChannels \in RLFChannels, numFrames \in 0..MaxRLFBlock :
    \E kinds \in [1..numFrames -> RLFKinds] :
      /\ RLFGiven(numChannels) + numFrames <= MaxRLFSamples
      /\ RLFProcess(numChannels, numFrames,
                    RLFBlock(kinds, RLFGiven(numChannels), numChannels))

SpecRLF == InitRLF /\ [][NextRLF]_vars

(***************************************************************************)
(* Recursive filter: block splitting and the difference equation.          *)
(***************************************************************************)
\* What a freshly constructed filter returns for the whole stream of
\* channel c handed over as one single block.
OneBlock(c) ==
  FilterChannel(Zeros(Len(mInputCoefficients)), Zeros(Len(mOutputCoefficients)),
                Len(mInputCoefficients), Len(mOutputCoefficients),
                rlf.chan[c].in).out

FixedChannelCount == Cardinality(rlf.counts) = 1

\* C4: for a fixed channel count the concatenated output is the same for
\* every way of splitting the stream into blocks, on every channel.
C4_BlockSplitting ==
  FixedChannelCount => \A c \in 1..Len(rlf.chan) : rlf.chan[c].out = OneBlock(c)

\* Two channels, a three-tap filter, four finite samples given in more than
\* one call, the last call one frame long.
C4_Witness ==
  /\ FixedChannelCount
  /\ Len(rlf.chan) = 2
  /\ Len(mInputCoefficients) = 3
  /\ Len(rlf.chan[2].in) = 4
  /\ call.numFrames = 1
  /\ \A n \in 1..4 : IsFinite(rlf.chan[2].in[n])

\* x[n] and y[n] of the difference equation, 0 before the first sample
\* (n counts from 1).
Before(v, n) == IF n >= 1 THEN v[n] ELSE 0

RECURSIVE RefSumB(_, _, _)
\* sum over k <= i < Di of b[i] * x[n - i]
RefSumB(xs, n, k) ==
  IF k >= Len(mInputCoefficients) THEN 0
  ELSE FAdd(FMul(At(mInputCoefficients, k), Before(xs, n - k)), RefSumB(xs, n, k + 1))

RECURSIVE RefSumA(_, _, _)
\* sum over k <= i < Do of a[i] * y[n - i]
RefSumA(ys, n, k) ==
  IF k >= Len(mOutputCoefficients) THEN 0
  ELSE FAdd(FMul(At(mOutputCoefficients, k), Before(ys, n - k)), RefSumA(ys, n, k + 1))

RECURSIVE RefOutputs(_, _)
\* y[1..Len(xs)] of the reference difference equation
\*   y[n] = sum_{0<=k<Di} b[k] x[n-k] + sum_{1<=k<Do} a[k] y[n-k].
RefOutputs(xs, ys) ==
  IF Len(ys) >= Len(xs) THEN ys
  ELSE LET n == Len(ys) + 1
       IN  RefOutputs(xs, Append(ys, FAdd(RefSumB(xs, n, 0), RefSumA(ys, n, 1))))

AllFinite(xs) == \A n \in 1..Len(xs) : IsFinite(xs[n])

\* C5 as stated: for non-NaN inputs every output sample equals the
\* reference difference equation.
C5_DifferenceEquation ==
  FixedChannelCount =>
    \A c \in 1..Len(rlf.chan) :
      rlf.chan[c].out = RefOutputs(rlf.chan[c].in, <<>>)

\* C5 amended: for finite inputs every output sample of each channel equals
\* the reference difference equation, x and y taken as 0 before the first
\* sample; a[0] is never read.
C5_FiniteDifferenceEquation ==
  FixedChannelCount =>
    \A c \in 1..Len(rlf.chan) :
      AllFinite(rlf.chan[c].in) =>
        rlf.chan[c].out = RefOutputs(rlf.chan[c].in, <<>>)

\* Four finite samples through the three-tap filter on two channels, whose
\* a[0] is not zero.
C5_Witness ==
  /\ FixedChannelCount
  /\ Len(rlf.chan) = 2
  /\ Len(mOutputCoefficients) = 3
  /\ At(mOutputCoefficients, 0) # 0
  /\ Len(rlf.chan[2].out) = 4
  /\ AllFinite(rlf.chan[2].in)
  /\ rlf.chan[2].out[4] # 0

(***************************************************************************)
(* SpecRLFAny: the recursive filter with inputs of every kind (finite,     *)
(* infinite, NaN) and with coefficients that may be infinite.              *)
(***************************************************************************)
AnyFilters == {[b |-> <<1, -1>>, a |-> <<5, 1>>],
               [b |-> <<0, 1, 2>>, a |-> <<5, 1, -1>>],
               [b |-> <<Infinity, 1>>, a |-> <<5, 1>>]}
RLFAnyChannels == {1, 2}
RLFAnyFrames == {0, 1, 2}
RLFAnyKinds == RLFKinds \cup {"nan"}

\* Channel c of a block: NaN, an infinity (negative on the second channel),
\* or the finite sample of RLFBlock.
RLFAnyBlock(kinds, from, numChannels) ==
  [c \in 1..numChannels |->
     [s \in 1..Len(kinds) |->
        IF kinds[s] = "nan" THEN NaN
        ELSE IF kinds[s] = "infinite"
          THEN (IF c = 2 THEN -Infinity ELSE Infinity)
        ELSE c * (from + s)]]

InitRLFAny ==
  /\ DSPInit
  /\ HistIdle
  /\ GateIdle
  /\ filterClass = "Base"
  /\ \E f \in AnyFilters :
       /\ mInputCoefficients = f.b
       /\ mOutputCoefficients = f.a
       /\ mInputStart = Len(f.b)
       /\ mOutputStart = Len(f.a)
  /\ mInputHistory = <<>>
  /\ mOutputHistory = <<>>
  /\ rlf = NoRLF

NextRLFAny ==
  \E numChannels \in RLFAnyChannels, numFrames \in RLFAnyFrames :
    \E kinds \in [1..numFrames -> RLFAnyKinds] :
      /\ RLFGiven(numChannels) + numFrames <= MaxAnySamples
      /\ RLFProcess(numChannels, numFrames,
                    RLFAnyBlock(kinds, RLFGiven(numChannels), numChannels))

SpecRLFAny == InitRLFAny /\ [][NextRLFAny]_vars

(***************************************************************************)
(* Recursive filter: the cursors.                                          *)
(***************************************************************************)
\* A cursor designates a slot of a history of the given degree.
ValidSlot(cursor, degree) == degree >= 1 => (0 <= cursor /\ cursor < degree)

\* The cursor a call of numFrames frames is said to leave.
CursorAfter(cursor, degree, numFrames) ==
  degree >= 1 => cursor' = (cursor - numFrames) % degree

\* C21: with a degree of at least 1 each cursor designates a valid slot,
\* 0 <= cursor < degree, in every state from construction on, and a Process
\* call of n frames leaves it at (previous cursor - n) mod degree.
C21_FilterCursor ==
  /\ [](/\ ValidSlot(mInputStart, Len(mInputCoefficients))
        /\ ValidSlot(mOutputStart, Len(mOutputCoefficients)))
  /\ [][/\ CursorAfter(mInputStart, Len(mInputCoefficients), call'.numFrames)
        /\ CursorAfter(mOutputStart, Len(mOutputCoefficients), call'.numFrames)]_vars

\* No sample has gone through the channels the filter has at present.
NoSampleYet == \A c \in 1..Len(rlf.chan) : rlf.chan[c].in = <<>>

\* The cursor is a valid slot, or still the degree it was constructed with.
SlotOrDegree(cursor, degree) ==
  degree >= 1 =>
    /\ 0 <= cursor
    /\ cursor <= degree
    /\ cursor = degree => NoSampleYet

\* The cursor a call leaves: 0 without channels, untouched without frames,
\* and (previous cursor - n) mod degree otherwise.
CursorAfterCall(cursor, degree, numChannels, numFrames) ==
  degree >= 1 =>
    cursor' = IF numChannels = 0 THEN 0
              ELSE IF numFrames = 0 THEN cursor
              ELSE (cursor - numFrames) % degree

\* C21, amended: with a degree of at least 1 each cursor satisfies
\* 0 <= cursor <= degree, and equals the degree only while no sample has been
\* processed since construction; a Process call with at least one channel
\* and n >= 1 frames leaves it at (previous cursor - n) mod degree, one with
\* no frames leaves it unchanged, and one with no channels leaves it at 0.
C21_FilterCursorAmended ==
  /\ [](/\ SlotOrDegree(mInputStart, Len(mInputCoefficients))
        /\ SlotOrDegree(mOutputStart, Len(mOutputCoefficients)))
  /\ [][/\ CursorAfterCall(mInputStart, Len(mInputCoefficients),
                           call'.numChannels, call'.numFrames)
        /\ CursorAfterCall(mOutputStart, Len(mOutputCoefficients),
                           call'.numChannels, call'.numFrames)]_vars

\* A filter of degree 3 whose cursors have wrapped: four samples of one
\* channel in blocks, the last block of two frames.
C21_Witness ==
  /\ call.unit = "rlf"
  /\ call.numChannels = 1
  /\ call.numFrames = 2
  /\ Len(mInputCoefficients) = 3
  /\ Len(mOutputCoefficients) = 3
  /\ Len(rlf.chan[1].in) = 4
  /\ mInputStart = 2
  /\ mOutputStart = 2

(***************************************************************************)
(* Recursive filter: the NaN guard.                                        *)
(***************************************************************************)
\* A channel whose histories were just zeroed.
FreshChannel ==
  [inH |-> Zeros(Len(mInputCoefficients)), outH |-> Zeros(Len(mOutputCoefficients)),
   inS |-> Len(mInputCoefficients), outS |-> Len(mOutputCoefficients),
   out |-> <<>>]

\* The value of the recurrence for sample x on channel st, before the guard.
RecurrenceOf(st, x) ==
  LET next == FilterSample(st, x)
  IN  FAdd(InputTerms(mInputCoefficients, next.inH, next.inS),
           OutputTerms(mOutputCoefficients, st.outH, next.outS))

RECURSIVE RecurrenceValues(_, _, _)
RecurrenceValues(st, xs, n) ==
  IF n > Len(xs) THEN <<>>
  ELSE <<RecurrenceOf(st, xs[n])>>
         \o RecurrenceValues(FilterSample(st, xs[n]), xs, n + 1)

\* The recurrence values of the samples channel c was given since its
\* histories were zeroed.
Recurrence(c) == RecurrenceValues(FreshChannel, rlf.chan[c].in, 1)

NoNaNIn(xs) == \A i \in 1..Len(xs) : ~IsNaN(xs[i])

\* C13: no sample of the output block and no value of the output history is
\* NaN, and a sample whose recurrence evaluates to NaN is output as 0: for
\* any coefficients, any inputs and any sequence of Process calls.
C13_NaNGuard ==
  call.unit = "rlf" =>
    /\ \A c \in 1..Len(mOutputs) : NoNaNIn(mOutputs[c])
    /\ \A c \in 1..Len(mOutputHistory) : NoNaNIn(mOutputHistory[c])
    /\ \A c \in 1..Len(rlf.chan) :
         \A recurrence \in {Recurrence(c)} :
           \A n \in 1..Len(recurrence) :
             IsNaN(recurrence[n]) => rlf.chan[c].out[n] = 0

\* A block of two frames whose first input is NaN and whose second is
\* finite, both recurrences NaN and both outputs 0, on two channels.
C13_Witness ==
  /\ call.unit = "rlf"
  /\ call.numChannels = 2
  /\ call.numFrames = 2
  /\ IsNaN(rlf.chan[2].in[Len(rlf.chan[2].in) - 1])
  /\ IsFinite(rlf.chan[2].in[Len(rlf.chan[2].in)])
  /\ IsNaN(Recurrence(2)[Len(rlf.chan[2].in) - 1])
  /\ IsNaN(Recurrence(2)[Len(rlf.chan[2].in)])
  /\ mOutputs[2] = <<0, 0>>

(***************************************************************************)
(* Recursive filter: after a NaN.                                          *)
(***************************************************************************)
FiniteCoefficients ==
  /\ \A i \in 1..Len(mInputCoefficients) : IsFinite(mInputCoefficients[i])
  /\ \A i \in 1..Len(mOutputCoefficients) : IsFinite(mOutputCoefficients[i])

\* The recurrence of channel c evaluated to NaN on a sample before sample n.
NaNBefore(recurrence, n) == \E m \in 1..(n - 1) : IsNaN(recurrence[m])

\* C14: with finite coefficients, once a recurrence has evaluated to NaN and
\* was replaced by 0, no NaN remains in the stored input or output history,
\* and every following sample with a finite input is output as the value of
\* the recurrence and is not forced to 0.
C14_NaNRecovery ==
  (call.unit = "rlf" /\ FiniteCoefficients) =>
    \A c \in 1..Len(rlf.chan) :
      \A recurrence \in {Recurrence(c)} :
        /\ NaNBefore(recurrence, Len(recurrence) + 1) =>
             /\ NoNaNIn(mInputHistory[c])
             /\ NoNaNIn(mOutputHistory[c])
        /\ \A n \in 1..Len(recurrence) :
             (NaNBefore(recurrence, n) /\ IsFinite(rlf.chan[c].in[n])) =>
               /\ ~IsNaN(recurrence[n])
               /\ rlf.chan[c].out[n] = recurrence[n]

(***************************************************************************)
(* The coefficient calculators.  A parameter object is modelled by the     *)
(* values its getters return; the settings are those for which every       *)
(* division of SetParams has an integer, infinite or NaN quotient.         *)
(***************************************************************************)
\* -a
FNeg(a) == IF IsNaN(a) THEN NaN ELSE -a

\* a - b
FSub(a, b) == FAdd(a, FNeg(b))

\* a / b
FDiv(a, b) ==
  IF IsNaN(a) \/ IsNaN(b) THEN NaN
  ELSE IF IsInf(a) THEN (IF IsInf(b) THEN NaN
                         ELSE IF b < 0 THEN FNeg(a) ELSE a)
  ELSE IF IsInf(b) THEN 0
  ELSE IF b = 0 THEN (IF a = 0 THEN NaN ELSE Sign(a) * Infinity)
  ELSE Sign(a) * Sign(b) * (Abs(a) \div Abs(b))

\* The quotient a / b is a value of the model.
ExactDiv(a, b) ==
  (IsFinite(a) /\ IsFinite(b) /\ b # 0) => Abs(a) % Abs(b) = 0

Calculators == {"LowPass", "HighPass", "LowShelf", "Peaking", "HighShelf"}
Biquads == {"LowShelf", "Peaking", "HighShelf"}

\* The degrees each class passes to Base(inputDegree, outputDegree).
Degrees(class) ==
  IF class = "LowPass" THEN [in |-> 1, out |-> 2]
  ELSE IF class = "HighPass" THEN [in |-> 2, out |-> 2]
  ELSE [in |-> 3, out |-> 3]

\* BiquadParams: GetA() with its square root, GetAlpha(), GetCosW().
\* gainDB is 0 (a = 1) or 40 log10(4); the angle is 0, a quarter or half of
\* the sample rate; the quality is any value, 0 (alpha infinite) included.
BiquadGetters ==
  { [a |-> g[1], roota |-> g[2], alpha |-> w[1], cosw |-> w[2]] :
      g \in {<<1, 1>>, <<4, 2>>},
      w \in {<<0, 1>>, <<0, -1>>} \cup
            {<<k, 0>> : k \in {-4, -3, -2, -1, 1, Infinity}} }

\* HighPassParams / LowPassParams: c = 2 pi frequency / sampleRate.
OnePoleGetters == {[c |-> 0], [c |-> -1], [c |-> -2]}

\* LowShelf::SetParams, Peaking::SetParams, HighShelf::SetParams: the six
\* values handed to _AssignCoefficients.
Cookbook(class, p) ==
  LET a == p.a
      alpha == p.alpha
      cosw == p.cosw
      ap == FAdd(a, 1)
      am == FSub(a, 1)
      roota2alpha == FMul(FMul(2, p.roota), alpha)
  IN  IF class = "LowShelf" THEN
        [b0 |-> FMul(a, FAdd(FSub(ap, FMul(am, cosw)), roota2alpha)),
         b1 |-> FMul(FMul(2, a), FSub(am, FMul(ap, cosw))),
         b2 |-> FMul(a, FSub(FSub(ap, FMul(am, cosw)), roota2alpha)),
         a0 |-> FAdd(FAdd(ap, FMul(am, cosw)), roota2alpha),
         a1 |-> FMul(-2, FAdd(am, FMul(ap, cosw))),
         a2 |-> FSub(FAdd(ap, FMul(am, cosw)), roota2alpha)]
      ELSE IF class = "Peaking" THEN
        [b0 |-> FAdd(1, FMul(alpha, a)),
         b1 |-> FMul(-2, cosw),
         b2 |-> FSub(1, FMul(alpha, a)),
         a0 |-> FAdd(1, FDiv(alpha, a)),
         a1 |-> FMul(-2, cosw),
         a2 |-> FSub(1, FDiv(alpha, a))]
      ELSE
        [b0 |-> FMul(a, FAdd(FAdd(ap, FMul(am, cosw)), roota2alpha)),
         b1 |-> FMul(FMul(-2, a), FAdd(am, FMul(ap, cosw))),
         b2 |-> FMul(a, FSub(FAdd(ap, FMul(am, cosw)), roota2alpha)),
         a0 |-> FAdd(FSub(ap, FMul(am, cosw)), roota2alpha),
         a1 |-> FMul(2, FSub(am, FMul(ap, cosw))),
         a2 |-> FSub(FSub(ap, FMul(am, cosw)), roota2alpha)]

AssignCoefficientsUnflipped(inC, outC, k) ==
  [b |-> Put(Put(Put(inC, 0, FDiv(k.b0, k.a0)), 1, FDiv(k.b1, k.a0)),
             2, FDiv(k.b2, k.a0)),
   a |-> Put(Put(outC, 1, FDiv(k.a1, k.a0)), 2, FDiv(k.a2, k.a0))]

AssignCoefficientsMutant(inC, outC, k) ==
  [b |-> Put(Put(Put(inC, 0, FDiv(k.b0, k.a0)), 1, FDiv(k.b1, k.a0)),
             2, FDiv(k.b2, k.a0)),
   a |-> Put(Put(outC, 0, FDiv(FNeg(k.a1), k.a0)), 1, FDiv(FNeg(k.a2), k.a0))]

\* Biquad::_AssignCoefficients: output coefficient 0 is not written.
AssignCoefficients(inC, outC, k) ==
  [b |-> Put(Put(Put(inC, 0, FDiv(k.b0, k.a0)), 1, FDiv(k.b1, k.a0)),
             2, FDiv(k.b2, k.a0)),
   a |-> Put(Put(outC, 1, FDiv(FNeg(k.a1), k.a0)), 2, FDiv(FNeg(k.a2), k.a0))]

\* HighPassParams::GetAlpha and LowPassParams::GetAlpha
HighPassAlpha(p) == FDiv(1, FAdd(p.c, 1))
LowPassAlpha(p) == FDiv(p.c, FAdd(p.c, 1))

\* HighPass::SetParams
HighPassCoefficients(inC, outC, p) ==
  LET alpha == HighPassAlpha(p)
  IN  [b |-> Put(Put(inC, 0, alpha), 1, FNeg(alpha)),
       a |-> Put(Put(outC, 0, 0), 1, alpha)]

\* LowPass::SetParams
LowPassCoefficients(inC, outC, p) ==
  LET alpha == LowPassAlpha(p)
  IN  [b |-> Put(inC, 0, alpha),
       a |-> Put(Put(outC, 0, 0), 1, FSub(1, alpha))]

\* The parameter objects SetParams of the class is called with.
Settings(class) ==
  IF class \in Biquads
    THEN { p \in BiquadGetters :
             LET k == Cookbook(class, p)
             IN  /\ ExactDiv(p.alpha, p.a)
                 /\ \A x \in {k.b0, k.b1, k.b2, k.a1, k.a2} : ExactDiv(x, k.a0) }
    ELSE OnePoleGetters

\* SetParams of the filter's class.
SetParams(p) ==
  LET k == IF filterClass \in Biquads
             THEN AssignCoefficients(mInputCoefficients, mOutputCoefficients,
                                     Cookbook(filterClass, p))
           ELSE IF filterClass = "HighPass"
             THEN HighPassCoefficients(mInputCoefficients, mOutputCoefficients, p)
           ELSE LowPassCoefficients(mInputCoefficients, mOutputCoefficients, p)
  IN  /\ mInputCoefficients' = k.b
      /\ mOutputCoefficients' = k.a
      /\ call' = [call EXCEPT !.unit = "SetParams"]
      /\ UNCHANGED <<dspVars, histVars, gateVars, filterClass, mInputHistory,
                     mOutputHistory, mInputStart, mOutputStart, rlf>>

\* The samples given per channel in a run of SpecCoeff.
MaxCoeffSamples == 2

\* LowPass(), HighPass(), LowShelf(), Peaking(), HighShelf(): Base(in, out)
\* value-initialises the coefficient vectors.
InitCoeff ==
  /\ DSPInit
  /\ HistIdle
  /\ GateIdle
  /\ filterClass \in Calculators
  /\ mInputCoefficients = Zeros(Degrees(filterClass).in)
  /\ mOutputCoefficients = Zeros(Degrees(filterClass).out)
  /\ mInputStart = Degrees(filterClass).in
  /\ mOutputStart = Degrees(filterClass).out
  /\ mInputHistory = <<>>
  /\ mOutputHistory = <<>>
  /\ rlf = NoRLF

NextCoeff ==
  \/ \E p \in Settings(filterClass) : SetParams(p)
  \/ \E numFrames \in 0..MaxRLFBlock :
       /\ RLFGiven(1) + numFrames <= MaxCoeffSamples
       /\ RLFProcess(1, numFrames,
                     RLFBlock([s \in 1..numFrames |-> "finite"], RLFGiven(1), 1))

SpecCoeff == InitCoeff /\ [][NextCoeff]_vars

(***************************************************************************)
(* SpecPeaking: a Peaking filter with gainDB = 0.  The host calls          *)
(* SetParams before the first block and again at any time; every           *)
(* parameter object has gainDB = 0 and a non-zero quality.                 *)
(***************************************************************************)
\* The samples given in a run of SpecPeaking.
MaxPeakSamples == 3

\* BiquadParams objects with gainDB = 0 (a = 1) and a non-zero quality
\* (alpha finite).
PeakingSettings ==
  {p \in Settings("Peaking") : p.a = 1 /\ IsFinite(p.alpha)}

InitPeaking ==
  /\ InitCoeff
  /\ filterClass = "Peaking"

\* SetParams has been called.
Configured == At(mInputCoefficients, 0) # 0

NextPeaking ==
  \/ \E p \in PeakingSettings : SetParams(p)
  \/ \E numFrames \in 0..MaxRLFBlock :
       /\ Configured
       /\ RLFGiven(1) + numFrames <= MaxPeakSamples
       /\ RLFProcess(1, numFrames,
                     RLFBlock([s \in 1..numFrames |-> "finite"], RLFGiven(1), 1))

SpecPeaking == InitPeaking /\ [][NextPeaking]_vars

(***************************************************************************)
(* Peaking: gainDB = 0 is the identity.                                    *)
(***************************************************************************)
\* Input coefficients (1, c1, c2) and output coefficients (0, -c1, -c2).
IdentityForm(inC, outC) ==
  /\ At(inC, 0) = 1
  /\ At(outC, 0) = 0
  /\ IsFinite(At(inC, 1))
  /\ IsFinite(At(inC, 2))
  /\ At(outC, 1) = -At(inC, 1)
  /\ At(outC, 2) = -At(inC, 2)

\* Every sample returned so far is the sample given.
OutputIsInput ==
  \A c \in 1..Len(rlf.chan) : rlf.chan[c].out = rlf.chan[c].in

\* C25: a Peaking filter configured with gainDB = 0, whatever the sample
\* rate, the frequency and the non-zero quality, has input coefficients
\* (1, c1, c2) and output coefficients (0, -c1, -c2), and from zero history
\* its output equals its input at every sample.
C25_PeakingIdentity ==
  Configured =>
    /\ IdentityForm(mInputCoefficients, mOutputCoefficients)
    /\ OutputIsInput

\* a0 = 1 + alpha / a is finite and not 0.
Regular(p) ==
  LET a0 == Cookbook("Peaking", p).a0
  IN  IsFinite(a0) /\ a0 # 0

\* C25, for the parameters with a0 = 1 + alpha finite and not 0: SetParams
\* leaves coefficients of the form (1, c1, c2) and (0, -c1, -c2), and with
\* coefficients of that form a filter whose output has equalled its input
\* so far (from zero history on) returns the samples it is given.
C25_PeakingIdentityRegular ==
  /\ [][\A p \in PeakingSettings :
          (Regular(p) /\ SetParams(p)) =>
            IdentityForm(mInputCoefficients', mOutputCoefficients')]_vars
  /\ [][(/\ IdentityForm(mInputCoefficients, mOutputCoefficients)
         /\ OutputIsInput) => OutputIsInput']_vars

\* Three samples through a filter with c1 = -2 and c2 = 1 (frequency 0),
\* the last one in a block of its own: each is returned unchanged.
C25_Witness ==
  /\ call.unit = "rlf"
  /\ call.numFrames = 1
  /\ IdentityForm(mInputCoefficients, mOutputCoefficients)
  /\ At(mInputCoefficients, 1) = -2
  /\ At(mInputCoefficients, 2) = 1
  /\ Len(rlf.chan) = 1
  /\ rlf.chan[1].in = <<1, 2, 3>>
  /\ rlf.chan[1].out = <<1, 2, 3>>

(***************************************************************************)
(* Coefficient calculators: the unused output coefficient.                 *)
(***************************************************************************)
\* C22: for every calculator with an output degree of at least 1, after
\* construction and after any sequence of SetParams calls, the output
\* coefficient at index 0 is exactly 0.
C22_OutputCoefficientZero ==
  (filterClass \in Calculators /\ Len(mOutputCoefficients) >= 1) =>
    At(mOutputCoefficients, 0) = 0

\* A biquad whose SetParams divided by a0 = 0, after an earlier SetParams:
\* every written coefficient is NaN or infinite.
C22_Witness ==
  /\ filterClass \in Biquads
  /\ call.unit = "SetParams"
  /\ IsNaN(At(mInputCoefficients, 0))
  /\ ~IsFinite(At(mOutputCoefficients, 2))
  /\ rlf.chan # <<>>

(***************************************************************************)
(* noise_gate: units and arithmetic.                                       *)
(*                                                                         *)
(* Power is counted in units of MINIMUM_LOUDNESS_POWER, levels and gain    *)
(* reductions in dB, time in sample periods.  A Trigger input sample is    *)
(* given by its square: the Trigger reads a sample only squared and in     *)
(* the verbatim copy to its output.  SampleType is modelled as a format    *)
(* that resolves whole dB of gain reduction; as in IEEE-754 a product      *)
(* that falls between two values is rounded to the nearest, ties to even.  *)
(***************************************************************************)
MINIMUM_LOUDNESS_DB == -120
MINIMUM_LOUDNESS_POWER == 1      \* pow(10, MINIMUM_LOUDNESS_DB / 10): the unit
MaximumLoudnessDecades == 15     \* the upper clamp 1000.0 is 10^15 units
AlphaInverse == 10               \* alpha = pow(0.5, 1 / (time * rate)) = 1/10
Dt == 1                          \* dt = 1 / mSampleRate
RatioScale == 100                \* mParams.ratio is held in hundredths

RECURSIVE Log10(_)
\* log10, exact on the powers of ten.
Log10(p) == IF p < 10 THEN 0 ELSE 1 + Log10(p \div 10)

\* _LevelToDB: 10 * log10(level), the level counted from the unit of power.
LevelToDB(level) == MINIMUM_LOUDNESS_DB + 10 * Log10(level)

\* std::clamp(v, lo, hi)
Clamp(v, lo, hi) == IF v < lo THEN lo ELSE IF hi < v THEN hi ELSE v

\* std::clamp(v, MINIMUM_LOUDNESS_POWER, 1000.0)
ClampLevel(v) ==
  IF v < MINIMUM_LOUDNESS_POWER THEN MINIMUM_LOUDNESS_POWER
  ELSE IF Log10(v) >= MaximumLoudnessDecades THEN 10^MaximumLoudnessDecades
  ELSE v

\* alpha * mLevel + beta * (x * x), clamped; x is given by its square.
Smooth(level, x) ==
  ClampLevel((level + (AlphaInverse - 1) * x) \div AlphaInverse)

\* The samples for which Smooth is exact and LevelToDB is exact on the result.
Admissible(level, x) ==
  /\ \/ (level + (AlphaInverse - 1) * x) % AlphaInverse = 0
     \/ level + (AlphaInverse - 1) * x < AlphaInverse * MINIMUM_LOUDNESS_POWER
  /\ Smooth(level, x) = 10^Log10(Smooth(level, x))

\* SampleType(0.5) * d, rounded to the nearest value, ties to even.
Half(d) ==
  IF d % 2 = 0 THEN d \div 2
  ELSE LET k == (d - 1) \div 2 IN IF k % 2 = 0 THEN k ELSE k + 1

\* Trigger::_GetGainReduction
GetGainReduction(params, levelDB) ==
  IF levelDB < params.threshold
    THEN 0 - ((params.ratio * (levelDB - params.threshold)
                            * (levelDB - params.threshold)) \div RatioScale)
    ELSE 0

\* Trigger::_GetMaxGainReduction
GetMaxGainReduction(params) == GetGainReduction(params, MINIMUM_LOUDNESS_DB)

\* dOpen and dClose: the most the gate opens or closes in one sample.
DOpen(params) == ((0 - GetMaxGainReduction(params)) \div params.openTime) * Dt
DClose(params) == (GetMaxGainReduction(params) \div params.closeTime) * Dt

(***************************************************************************)
(* noise_gate::Trigger: one sample of one channel.  A channel is the       *)
(* record [state, level, last, held] of mState[c], mLevel[c],              *)
(* mLastGainReductionDB[c] and mTimeHeld[c].                               *)
(***************************************************************************)
\* HOLDING: the reduction is 0; below threshold the hold timer runs.
HoldStep(params, ch, levelDB) ==
  IF levelDB < params.threshold
    THEN LET held == ch.held + Dt
         IN  [ch EXCEPT !.last = 0, !.held = held,
                        !.state = IF held >= params.holdTime
                                    THEN "MOVING" ELSE "HOLDING"]
    ELSE [ch EXCEPT !.last = 0, !.held = 0]

\* MOVING, target above the current reduction: the gate opens.
OpenStepMutant(params, ch, target) ==
  [ch EXCEPT !.last = target]

OpenStep(params, ch, target) ==
  LET dGain == Clamp(Half(target - ch.last), 0, DOpen(params))
      last == ch.last + dGain
  IN  IF last >= 0
        THEN [ch EXCEPT !.last = 0, !.state = "HOLDING", !.held = 0]
        ELSE [ch EXCEPT !.last = last]

\* MOVING, target below the current reduction: the gate closes.
CloseStepMutant(params, ch, target) ==
  [ch EXCEPT !.last = ch.last + DClose(params)]

CloseStep(params, ch, target) ==
  LET dGain == Clamp(Half(target - ch.last), DClose(params), 0)
      last == ch.last + dGain
      maxGainReduction == GetMaxGainReduction(params)
  IN  [ch EXCEPT !.last = IF last < maxGainReduction
                            THEN maxGainReduction ELSE last]

MoveStep(params, ch, levelDB) ==
  LET targetGainReduction == GetGainReduction(params, levelDB)
  IN  IF targetGainReduction > ch.last
        THEN OpenStep(params, ch, targetGainReduction)
      ELSE IF targetGainReduction < ch.last
        THEN CloseStep(params, ch, targetGainReduction)
      ELSE ch

\* One sample x: the channel afterwards and the reduction written for it.
TriggerSample(params, ch, x) ==
  LET level == Smooth(ch.level, x)
      levelDB == LevelToDB(level)
      leveled == [ch EXCEPT !.level = level]
      after == IF ch.state = "HOLDING"
                 THEN HoldStep(params, leveled, levelDB)
                 ELSE MoveStep(params, leveled, levelDB)
  IN  [ch |-> after,
       reduction |-> IF ch.state = "HOLDING" THEN 0 ELSE after.last]

RECURSIVE TriggerFrames(_, _, _, _)
\* The frame loop of one channel from frame s on.  r holds the channel, the
\* reductions written so far, the channel after every sample, and whether
\* every sample so far was admissible.
TriggerFrames(params, r, block, s) ==
  IF s > Len(block) THEN r
  ELSE LET t == TriggerSample(params, r.ch, block[s])
       IN  TriggerFrames(params,
             [ch |-> t.ch,
              row |-> [r.row EXCEPT ![s] = t.reduction],
              steps |-> Append(r.steps, t.ch),
              ok |-> r.ok /\ Admissible(r.ch.level, block[s])],
             block, s + 1)

(***************************************************************************)
(* noise_gate::Trigger: _PrepareBuffers and Process.                       *)
(***************************************************************************)
\* Trigger::_PrepareBuffers after DSP::_PrepareBuffers: the per-channel
\* vectors and the matrix.  A change of the channel count resets every
\* channel; a change of shape refills the matrix.
PrepareTriggerMutant(params, t, oldChannels, oldFrames, numChannels, numFrames) ==
  LET updateFrames == (numChannels # oldChannels) \/ (numFrames # oldFrames)
      maxGainReduction == GetMaxGainReduction(params)
      sized == IF updateFrames
                 THEN [state  |-> Fill(Resize(t.state, numChannels, "MOVING"), "MOVING"),
                       level  |-> Fill(Resize(t.level, numChannels, 0), MINIMUM_LOUDNESS_POWER),
                       last   |-> Fill(Resize(t.last, numChannels, 0), maxGainReduction),
                       held   |-> Fill(Resize(t.held, numChannels, 0), 0),
                       matrix |-> Resize(t.matrix, numChannels, <<>>)]
                 ELSE t
  IN  IF updateFrames
        THEN [sized EXCEPT !.matrix =
                [i \in 1..Len(sized.matrix) |->
                   Fill(Resize(sized.matrix[i], numFrames, 0), maxGainReduction)]]
        ELSE sized

PrepareTriggerRefilled(params, t, oldChannels, oldFrames, numChannels, numFrames) ==
  LET updateChannels == numChannels # oldChannels
      updateFrames == updateChannels \/ (numFrames # oldFrames)
      maxGainReduction == GetMaxGainReduction(params)
      sized == IF updateChannels
                 THEN [state  |-> Fill(Resize(t.state, numChannels, "MOVING"), "MOVING"),
                       level  |-> Fill(Resize(t.level, numChannels, 0), MINIMUM_LOUDNESS_POWER),
                       last   |-> Fill(Resize(t.last, numChannels, 0), maxGainReduction),
                       held   |-> Fill(Resize(t.held, numChannels, 0), 0),
                       matrix |-> Resize(t.matrix, numChannels, <<>>)]
                 ELSE t
  IN  IF updateFrames
        THEN [sized EXCEPT !.last = Fill(sized.last, maxGainReduction),
                           !.matrix =
                [i \in 1..Len(sized.matrix) |->
                   Fill(Resize(sized.matrix[i], numFrames, 0), maxGainReduction)]]
        ELSE sized

PrepareTrigger(params, t, oldChannels, oldFrames, numChannels, numFrames) ==
  LET updateChannels == numChannels # oldChannels
      updateFrames == updateChannels \/ (numFrames # oldFrames)
      maxGainReduction == GetMaxGainReduction(params)
      sized == IF updateChannels
                 THEN [state  |-> Fill(Resize(t.state, numChannels, "MOVING"), "MOVING"),
                       level  |-> Fill(Resize(t.level, numChannels, 0), MINIMUM_LOUDNESS_POWER),
                       last   |-> Fill(Resize(t.last, numChannels, 0), maxGainReduction),
                       held   |-> Fill(Resize(t.held, numChannels, 0), 0),
                       matrix |-> Resize(t.matrix, numChannels, <<>>)]
                 ELSE t
  IN  IF updateFrames
        THEN [sized EXCEPT !.matrix =
                [i \in 1..Len(sized.matrix) |->
                   Fill(Resize(sized.matrix[i], numFrames, 0), maxGainReduction)]]
        ELSE sized

\* The channels of the per-channel vectors t, as records.
ChannelsOf(t) ==
  [c \in 1..Len(t.state) |->
     [state |-> t.state[c], level |-> t.level[c],
      last |-> t.last[c], held |-> t.held[c]]]

\* Gain::SetGainReductionDB: the unit keeps a copy of the matrix.
SetMatrix(unit, gainReductionDB) ==
  [unit EXCEPT !.mGainReductionDB = gainReductionDB]

\* The loop over mGainListeners at the end of Trigger::Process.
PublishToAll(units, listeners, gainReductionDB) ==
  [g \in DOMAIN units |-> SetMatrix(units[g], gainReductionDB)]

PublishMutant(units, listeners, gainReductionDB) ==
  [g \in DOMAIN units |->
     IF g \in listeners /\ \A h \in listeners : g <= h
       THEN SetMatrix(units[g], gainReductionDB) ELSE units[g]]

Publish(units, listeners, gainReductionDB) ==
  [g \in DOMAIN units |->
     IF g \in listeners THEN SetMatrix(units[g], gainReductionDB) ELSE units[g]]

CopyInputsMutant(outs, inputs, numChannels, numFrames) ==
  [c \in 1..Len(outs) |->
     IF c <= numChannels
       THEN [s \in 1..Len(outs[c]) |->
               IF s < numFrames THEN inputs[c][s] ELSE outs[c][s]]
       ELSE outs[c]]

\* memcpy(mOutputs[c].data(), inputs[c], numFrames * sizeof(SampleType))
CopyInputs(outs, inputs, numChannels, numFrames) ==
  [c \in 1..Len(outs) |->
     IF c <= numChannels
       THEN [s \in 1..Len(outs[c]) |->
               IF s <= numFrames THEN inputs[c][s] ELSE outs[c][s]]
       ELSE outs[c]]

TriggerProcess(numChannels, numFrames, inputs) ==
  LET oldChannels == GetNumChannels(mOutputs)
      oldFrames == GetNumFrames(mOutputs)
      p == PreparePointers(mOutputs, mOutputPointers, mOutputPointersSize,
                           numChannels, numFrames)
      old == [state |-> mState, level |-> mLevel, last |-> mLastGainReductionDB,
              held |-> mTimeHeld, matrix |-> mGainReductionDB]
  IN  \E t \in {PrepareTrigger(mParams, old, oldChannels, oldFrames,
                                numChannels, numFrames)} :
      \E run \in {[c \in 1..numChannels |->
                     TriggerFrames(mParams,
                                   [ch |-> ChannelsOf(t)[c], row |-> t.matrix[c],
                                    steps |-> <<>>, ok |-> TRUE],
                                   inputs[c], 1)]} :
      \E written \in {CopyInputs(PrepareOutputs(mOutputs, numChannels, numFrames),
                                 inputs, numChannels, numFrames)} :
        /\ ~p.fault
        /\ \A c \in 1..numChannels : run[c].ok
        /\ mState' = [c \in 1..numChannels |-> run[c].ch.state]
        /\ mLevel' = [c \in 1..numChannels |-> run[c].ch.level]
        /\ mLastGainReductionDB' = [c \in 1..numChannels |-> run[c].ch.last]
        /\ mTimeHeld' = [c \in 1..numChannels |-> run[c].ch.held]
        /\ mGainReductionDB' = [c \in 1..numChannels |-> run[c].row]
        /\ gains' = Publish(gains, mGainListeners,
                            [c \in 1..numChannels |-> run[c].row])
        /\ mOutputs' = written
        /\ mOutputPointers' = GetPointers(written, p.ptrs)
        /\ mOutputPointersSize' = p.size
        /\ call' = [unit |-> "trigger", numChannels |-> numChannels,
                    numFrames |-> numFrames, fault |-> "none"]
        /\ gate' = [count |-> Min(gate.count + 1, 2),
                    calls |-> Min(gate.calls + 1, MaxChainCalls),
                    oldChannels |-> oldChannels, oldFrames |-> oldFrames,
                    before |-> ChannelsOf(old), begin |-> ChannelsOf(t),
                    steps |-> [c \in 1..numChannels |-> run[c].steps],
                    published |-> mGainListeners,
                    inputs |-> inputs]
        /\ UNCHANGED <<mParams, mGainListeners, histVars, rlfVars>>

\* Trigger::AddListener
AddListener(g) ==
  /\ g \notin mGainListeners
  /\ mGainListeners' = mGainListeners \cup {g}
  /\ UNCHANGED <<dspVars, call, histVars, rlfVars, mParams, mState, mLevel,
                 mGainReductionDB, mLastGainReductionDB, mTimeHeld, gains, gate>>

(***************************************************************************)
(* noise_gate::Gain                                                        *)
(***************************************************************************)
\* _DBToLevel: pow(10, db / 10) in thousandths, for -10 <= db <= 0.
DBToLevelTable == <<1000, 794, 631, 501, 398, 316, 251, 200, 158, 126, 100>>
DBToLevel(db) == DBToLevelTable[1 - db]

\* The faults Gain::Process can end with.  The frame check reads the size of
\* mGainReductionDB[0]; with an empty matrix that read is out of bounds and
\* the call may pass the check, raise the frame fault, or crash.
CheckGain(matrix, numChannels, numFrames) ==
  IF Len(matrix) # numChannels THEN {"channels"}
  ELSE IF Len(matrix) = 0 /\ numFrames > 0 THEN {"no channels"}
  ELSE IF Len(matrix) = 0 THEN {"none", "frames", "crash"}
  ELSE IF Len(matrix[1]) # numFrames THEN {"frames"}
  ELSE {"none"}

\* mGainReductionDB[c][s] as the gain loop reads it: past the end of a
\* channel the read is out of bounds and returns whatever lies there.
MatrixAt(matrix, c, s, garbage) ==
  IF s <= Len(matrix[c]) THEN matrix[c][s] ELSE garbage

\* Whether the gain loop stays inside the matrix.
InBounds(matrix, numChannels, numFrames) ==
  \A c \in 1..numChannels : numFrames <= Len(matrix[c])

\* The gain loop: mOutputs[c][s] = _DBToLevel(mGainReductionDB[c][s]) * inputs[c][s]
ApplyGain(outs, matrix, inputs, numChannels, numFrames, garbage) ==
  [c \in 1..Len(outs) |->
     IF c <= numChannels
       THEN [s \in 1..Len(outs[c]) |->
               IF s <= numFrames
                 THEN DBToLevel(MatrixAt(matrix, c, s, garbage)) * inputs[c][s]
                 ELSE outs[c][s]]
       ELSE outs[c]]

\* What an out-of-bounds read of the matrix may return.
Garbage == {0, -3}

\* Gain::Process of unit g.  fault is the way the call ends.
GainProcess(g, numChannels, numFrames, inputs, fault, garbage) ==
  LET unit == gains[g]
      matrix == unit.mGainReductionDB
      prepared == PrepareOutputs(unit.mOutputs, numChannels, numFrames)
      p == PreparePointers(unit.mOutputs, unit.mOutputPointers,
                           unit.mOutputPointersSize, numChannels, numFrames)
      applied == ApplyGain(prepared, matrix, inputs, numChannels, numFrames, garbage)
      written == IF fault = "none" THEN applied ELSE prepared
  IN  /\ ~p.fault
      /\ \/ fault \in CheckGain(matrix, numChannels, numFrames)
         \/ /\ fault = "crash"
            /\ "none" \in CheckGain(matrix, numChannels, numFrames)
            /\ ~InBounds(matrix, numChannels, numFrames)
      /\ garbage \in IF fault = "none" /\ ~InBounds(matrix, numChannels, numFrames)
                        THEN Garbage ELSE {0}
      /\ gains' = [gains EXCEPT ![g] =
                     [unit EXCEPT !.mOutputs = written,
                                  !.mOutputPointers =
                                     IF fault = "none"
                                       THEN GetPointers(written, p.ptrs) ELSE p.ptrs,
                                  !.mOutputPointersSize = p.size]]
      /\ call' = [unit |-> "gain", numChannels |-> numChannels,
                  numFrames |-> numFrames, fault |-> fault,
                  gain |-> g, inputs |-> inputs,
                  follows |-> /\ call.unit = "trigger"
                              /\ call.numChannels = numChannels
                              /\ call.numFrames = numFrames]
      /\ gate' = [gate EXCEPT !.calls = Min(gate.calls + 1, MaxChainCalls)]
      /\ UNCHANGED <<dspVars, histVars, rlfVars, mParams, mState, mLevel,
                     mGainReductionDB, mLastGainReductionDB, mTimeHeld,
                     mGainListeners>>

\* Gain::SetGainReductionDB called by the host on unit g.
SetGainReductionDB(g, gainReductionDB) ==
  /\ gains' = [gains EXCEPT ![g] = SetMatrix(gains[g], gainReductionDB)]
  /\ call' = [unit |-> "set", numChannels |-> Len(gainReductionDB),
              numFrames |-> 0, fault |-> "none"]
  /\ UNCHANGED <<dspVars, histVars, rlfVars, mParams, mState, mLevel,
                 mGainReductionDB, mLastGainReductionDB, mTimeHeld,
                 mGainListeners, gate>>

(***************************************************************************)
(* SpecGate: a Trigger whose host calls Process with blocks of any shape.  *)
(***************************************************************************)
\* The parameters the host sets before the first call (SetParams,
\* SetSampleRate): two thresholds above the loudness floor, with different
\* timings, and a threshold below the floor.
TriggerSettings ==
  { [threshold |-> -100, ratio |-> 1, openTime |-> 2, holdTime |-> 2, closeTime |-> 2],
    [threshold |-> -110, ratio |-> 1, openTime |-> 1, holdTime |-> 1, closeTime |-> 1],
    [threshold |-> -130, ratio |-> 1, openTime |-> 2, holdTime |-> 2, closeTime |-> 2] }

\* Input samples of the Trigger, by their square: silence, and the samples
\* that hold the level at, or raise it to, -120, -110 or -100 dB.
Powers == {0, 1, 10, 11, 100, 110}

\* What the host feeds a channel during one block: silence (the level falls
\* by a decade per sample), a steady signal at the present level, or a
\* signal that raises the level by a decade per sample.
GateKinds == {"fall", "hold", "rise"}

GateSample(kind, level) ==
  IF kind = "fall" THEN 0
  ELSE IF kind = "hold" THEN level
  ELSE (AlphaInverse + 1) * level

RECURSIVE GateBlock(_, _, _)
GateBlock(kind, level, n) ==
  IF n = 0 THEN <<>>
  ELSE <<GateSample(kind, level)>>
         \o GateBlock(kind, Smooth(level, GateSample(kind, level)), n - 1)

\* The level channel c starts the next block with.
LevelBefore(c, numChannels) ==
  IF numChannels # GetNumChannels(mOutputs)
    THEN MINIMUM_LOUDNESS_POWER ELSE mLevel[c]

GateInputs(kinds, numChannels, numFrames) ==
  [c \in 1..numChannels |->
     GateBlock(kinds[c], LevelBefore(c, numChannels), numFrames)]

GateChannels == {0, 1, 2}
GateFrames == 0..MaxGateFrames

\* The input block of a Gain call: sample s of channel c is x * (2c + s).
GainSamples == {1, -2}
GainBlock(numChannels, numFrames, x) ==
  [c \in 1..numChannels |-> [s \in 1..numFrames |-> x * (2 * c + s)]]

GainFaults == {"none", "channels", "no channels", "frames", "crash"}

InitGate ==
  /\ DSPInit
  /\ HistIdle
  /\ RLFIdle
  /\ mParams \in TriggerSettings
  /\ mState = <<>>
  /\ mLevel = <<>>
  /\ mGainReductionDB = <<>>
  /\ mLastGainReductionDB = <<>>
  /\ mTimeHeld = <<>>
  /\ mGainListeners = {}
  /\ gains = [g \in Gains |-> NewGain]
  /\ gate = NoGate

\* The host calls Process of Gain unit g.
GainCall(g, numChannels, numFrames, x) ==
  \E fault \in GainFaults, garbage \in Garbage \cup {0} :
    GainProcess(g, numChannels, numFrames,
                GainBlock(numChannels, numFrames, x), fault, garbage)

\* The host calls Process of the Trigger with a block of the given kinds.
TriggerCall(numChannels, numFrames, kinds) ==
  \E inputs \in {GateInputs(kinds, numChannels, numFrames)} :
    /\ \A c \in 1..numChannels : \A s \in 1..numFrames : inputs[c][s] \in Powers
    /\ TriggerProcess(numChannels, numFrames, inputs)

NextGate ==
  \E numChannels \in GateChannels, numFrames \in GateFrames :
    \E kinds \in [1..numChannels -> GateKinds] :
      TriggerCall(numChannels, numFrames, kinds)

SpecGate == InitGate /\ [][NextGate]_vars

(***************************************************************************)
(* SpecChain: a Trigger, the Gain units that listen to it, and a host that *)
(* registers listeners and calls Process on the units in any order.  The   *)
(* host calls a Gain unit with the shape of the last call or with one      *)
(* channel of one frame.                                                   *)
(***************************************************************************)
ChainShapes == {<<0, 1>>, <<1, 0>>, <<1, 2>>, <<2, 1>>}
ChainKinds == {"fall", "rise"}

InitChain ==
  /\ InitGate
  /\ mParams.threshold = -100

NextChain ==
  \/ /\ gate.calls < MaxChainCalls
     /\ \E shape \in ChainShapes :
          \E kinds \in [1..shape[1] -> ChainKinds] :
            TriggerCall(shape[1], shape[2], kinds)
  \/ \E g \in Gains : AddListener(g)
  \/ /\ gate.calls < MaxChainCalls
     /\ \E g \in Gains :
          \E shape \in {<<call.numChannels, call.numFrames>>, <<1, 1>>} :
            GainCall(g, shape[1], shape[2], -2)

SpecChain == InitChain /\ [][NextChain]_vars

(***************************************************************************)
(* SpecGain: a Gain unit whose matrix the host sets directly, to matrices  *)
(* of every shape, those whose channels differ in length included.         *)
(***************************************************************************)
\* The matrix whose channel c has lens[c] frames, 0 dB and -3 dB alternating.
GainMatrix(lens) ==
  [c \in 1..Len(lens) |->
     [s \in 1..lens[c] |-> IF (c + s) % 2 = 0 THEN 0 ELSE -3]]

GainMatrices ==
  UNION {{GainMatrix(lens) : lens \in [1..n -> GateFrames]} : n \in GateChannels}

InitGain == DSPInit /\ HistIdle /\ RLFIdle /\ GateIdle

NextGain ==
  \/ \E gainReductionDB \in GainMatrices : SetGainReductionDB(1, gainReductionDB)
  \/ \E numChannels \in GateChannels, numFrames \in GateFrames, x \in GainSamples :
       GainCall(1, numChannels, numFrames, x)

SpecGain == InitGain /\ [][NextGain]_vars

(***************************************************************************)
(* Trigger and Gain: publish on completion.                                *)
(***************************************************************************)
IsShape(matrix, numChannels, numFrames) ==
  /\ Len(matrix) = numChannels
  /\ \A c \in 1..Len(matrix) : Len(matrix[c]) = numFrames

\* input[c][s] * 10^(reductionDB[c][s] / 10), in thousandths.
GainOutput(inputs, gainReductionDB) ==
  [c \in 1..Len(gainReductionDB) |->
     [s \in 1..Len(gainReductionDB[c]) |->
        DBToLevel(gainReductionDB[c][s]) * inputs[c][s]]]

\* When Trigger::Process returns, every Gain unit registered before the call
\* holds the Trigger's matrix of that block, and a Gain::Process that follows
\* with the same shape raises no fault and returns the input scaled by the
\* Trigger's reductions of that block; for the channel counts given.
PublishOnCompletion(channelCounts) ==
  /\ (call.unit = "trigger" /\ call.numChannels \in channelCounts) =>
       /\ IsShape(mGainReductionDB, call.numChannels, call.numFrames)
       /\ \A g \in gate.published : gains[g].mGainReductionDB = mGainReductionDB
  /\ (/\ call.unit = "gain"
      /\ call.follows
      /\ call.gain \in gate.published
      /\ call.numChannels \in channelCounts) =>
       /\ call.fault = "none"
       /\ gains[call.gain].mOutputs = GainOutput(call.inputs, mGainReductionDB)

\* C6 as stated: publish on completion for every shape, zero channels
\* included.
C6_PublishOnCompletion == PublishOnCompletion(GateChannels)

\* C6 amended: publish on completion for every block of at least one
\* channel: the registered Gain units hold the Trigger's matrix of the block,
\* and a Gain::Process that follows with the same shape raises no fault and
\* returns input[c][s] * 10^(reductionDB[c][s] / 10).
C6_PublishOnCompletionWithChannels == PublishOnCompletion(GateChannels \ {0})

\* A registered Gain unit processed right after a Trigger block of one
\* channel and two frames whose reductions are -2 dB and -1 dB.
C6_Witness ==
  /\ call.unit = "gain"
  /\ call.follows
  /\ call.gain \in gate.published
  /\ call.fault = "none"
  /\ mGainReductionDB = <<<<-2, -1>>>>
  /\ gains[call.gain].mOutputs = <<<<-3786, -6352>>>>

(***************************************************************************)
(* Gain: validation of the matrix shape.                                   *)
(***************************************************************************)
Mismatch(matrix, numChannels, numFrames) ==
  \/ Len(matrix) # numChannels
  \/ \E c \in 1..Len(matrix) : Len(matrix[c]) # numFrames

UsageFaults == {"channels", "no channels", "frames"}

\* C7: Gain::Process raises the usage fault whenever the matrix's channel
\* count differs from numChannels or any channel's frame count differs from
\* numFrames, and applies the gain only when every channel matches.
C7_GainShapeValidation ==
  call.unit = "gain" =>
    LET matrix == gains[call.gain].mGainReductionDB
        mismatch == Mismatch(matrix, call.numChannels, call.numFrames)
    IN  /\ mismatch => call.fault \in UsageFaults
        /\ call.fault = "none" => ~mismatch

(***************************************************************************)
(* Gain: the accesses to the matrix.                                       *)
(***************************************************************************)
\* Gain::Process gets as far as the frame test, which reads the size of
\* mGainReductionDB[0]: neither of the two faults before it was raised.
ReachesFrameTest(matrix, numChannels, numFrames) ==
  /\ Len(matrix) = numChannels
  /\ ~(Len(matrix) = 0 /\ numFrames > 0)

\* C29: Gain::Process never indexes a channel or frame of its matrix that
\* does not exist, whatever the matrix (none supplied yet included) and the
\* shape of the call ((0, 0) included): every access of the validation and
\* of the gain loop is within the matrix, or a fault is raised before it.
C29_MatrixAccess ==
  call.unit = "gain" =>
    LET matrix == gains[call.gain].mGainReductionDB
    IN  /\ ReachesFrameTest(matrix, call.numChannels, call.numFrames) =>
             Len(matrix) >= 1
        /\ call.fault = "none" =>
             /\ call.numChannels <= Len(matrix)
             /\ InBounds(matrix, call.numChannels, call.numFrames)

(***************************************************************************)
(* Trigger: the state a block begins with.                                 *)
(***************************************************************************)
ResetChannel(maxGainReduction) ==
  [state |-> "MOVING", level |-> MINIMUM_LOUDNESS_POWER,
   last |-> maxGainReduction, held |-> 0]

\* The last Trigger call was the first one, or changed the channel count.
StartsAfresh == gate.count = 1 \/ Len(gate.begin) # gate.oldChannels

\* Every channel begins such a block MOVING, at the given reduction, at the
\* minimum loudness power and with held-time 0; every other block begins
\* with what the previous call left.
GateStart(maxGainReduction) ==
  gate.count >= 1 =>
    IF StartsAfresh
      THEN \A c \in 1..Len(gate.begin) :
             gate.begin[c] = ResetChannel(maxGainReduction)
      ELSE gate.begin = gate.before

\* -ratio * (MINIMUM_LOUDNESS_DB - threshold)^2
QuadraticReduction(params) ==
  0 - ((params.ratio * (MINIMUM_LOUDNESS_DB - params.threshold)
                     * (MINIMUM_LOUDNESS_DB - params.threshold)) \div RatioScale)

\* C9 as stated: a first call or a change of the channel count starts every
\* channel MOVING at -ratio * (MINIMUM_LOUDNESS_DB - threshold)^2, minimum
\* level, held-time 0; a change of numFrames alone keeps the channels.
C9_GateStartAndReset == GateStart(QuadraticReduction(mParams))

\* C9 amended: the reduction a channel starts at is the maximum reduction,
\* which is -ratio * (MINIMUM_LOUDNESS_DB - threshold)^2 for a threshold
\* above MINIMUM_LOUDNESS_DB and 0 dB otherwise.
C9_GateStartAtMaxReduction ==
  GateStart(IF MINIMUM_LOUDNESS_DB < mParams.threshold
              THEN QuadraticReduction(mParams) ELSE 0)

\* A call that changes only numFrames, on two channels the previous call
\* left at different levels, the first one part of the way open.
C9_Witness ==
  /\ gate.count = 2
  /\ Len(gate.begin) = 2
  /\ gate.oldChannels = 2
  /\ call.numFrames # gate.oldFrames
  /\ gate.begin[1].level = 100
  /\ gate.begin[1].last = -1
  /\ gate.begin[2].level = MINIMUM_LOUDNESS_POWER
  /\ gate.begin[2].last = -4

(***************************************************************************)
(* Trigger: the range of the gain reduction.                               *)
(***************************************************************************)
\* C10: every gain reduction the Trigger publishes lies between the maximum
\* reduction and 0 dB, both included.
C10_ReductionRange ==
  \A c \in 1..Len(mGainReductionDB) :
    \A s \in 1..Len(mGainReductionDB[c]) :
      /\ GetMaxGainReduction(mParams) <= mGainReductionDB[c][s]
      /\ mGainReductionDB[c][s] <= 0

\* A block during which a gate that was part of the way open closes again
\* and stops short of the maximum reduction.
C10_Witness ==
  \E c \in 1..Len(mGainReductionDB) :
    /\ Len(mGainReductionDB[c]) = 2
    /\ gate.begin[c].last = -1
    /\ mGainReductionDB[c] = <<-1, -3>>
    /\ GetMaxGainReduction(mParams) = -4

(***************************************************************************)
(* SpecSplit: a Trigger whose host keeps the channel count (one or two     *)
(* channels) and the parameters, and calls Process with blocks of any      *)
(* length; every channel is given silence or a rising signal.              *)
(***************************************************************************)
SplitChannels == {1, 2}

NextSplit ==
  \E numChannels \in SplitChannels, numFrames \in GateFrames :
    /\ gate.count = 0 \/ numChannels = GetNumChannels(mOutputs)
    /\ \E kinds \in [1..numChannels -> ChainKinds] :
         TriggerCall(numChannels, numFrames, kinds)

SpecSplit == InitGate /\ [][NextSplit]_vars

(***************************************************************************)
(* Trigger: splitting a block.                                             *)
(***************************************************************************)
\* Frames from..to of every channel of a block.
SubBlock(inputs, from, to) ==
  [c \in 1..Len(inputs) |-> SubSeq(inputs[c], from, to)]

\* _PrepareBuffers and the sample loop of Trigger::Process for one block,
\* on the per-channel vectors and the matrix t of a Trigger whose output
\* storage has the shape (oldChannels, oldFrames).
BlockRun(params, t, oldChannels, oldFrames, numChannels, numFrames, inputs) ==
  CHOOSE after \in
    { [state  |-> [c \in 1..numChannels |-> run[c].ch.state],
       level  |-> [c \in 1..numChannels |-> run[c].ch.level],
       last   |-> [c \in 1..numChannels |-> run[c].ch.last],
       held   |-> [c \in 1..numChannels |-> run[c].ch.held],
       matrix |-> [c \in 1..numChannels |-> run[c].row]] :
      run \in
        { [c \in 1..numChannels |->
             TriggerFrames(params,
                           [ch |-> ChannelsOf(prepared)[c],
                            row |-> prepared.matrix[c],
                            steps |-> <<>>, ok |-> TRUE],
                           inputs[c], 1)] :
          prepared \in {PrepareTrigger(params, t, oldChannels, oldFrames,
                                       numChannels, numFrames)} } } : TRUE

\* The block given as two consecutive blocks of k and numFrames - k frames:
\* the reductions of both, concatenated, and the channels afterwards.
SplitRun(numChannels, numFrames, inputs, k) ==
  LET t == [state |-> mState, level |-> mLevel, last |-> mLastGainReductionDB,
            held |-> mTimeHeld, matrix |-> mGainReductionDB]
      first == BlockRun(mParams, t, GetNumChannels(mOutputs), GetNumFrames(mOutputs),
                        numChannels, k, SubBlock(inputs, 1, k))
  IN  CHOOSE both \in
        UNION { { [second EXCEPT !.matrix =
                     [c \in 1..numChannels |-> f.matrix[c] \o second.matrix[c]]] :
                  second \in { BlockRun(mParams, f, numChannels,
                                        IF numChannels = 0 THEN 0 ELSE k,
                                        numChannels, numFrames - k,
                                        SubBlock(inputs, k + 1, numFrames)) } } :
                f \in {first} } : TRUE

\* C31: for a fixed channel count and fixed parameters the gain reductions
\* of a stream, sample by sample, and the state every channel is left in
\* (level, MOVING or HOLDING, current reduction, held time) are the same
\* however the stream is split into consecutive blocks: a block gives what
\* its two parts give when they are handed over one after the other, for
\* every place to split it.
C31_TriggerBlockSplit ==
  [][call'.unit = "trigger" =>
       \A k \in 0..call'.numFrames :
         \E split \in {SplitRun(call'.numChannels, call'.numFrames, gate'.inputs, k)} :
             /\ mGainReductionDB' = split.matrix
             /\ mState' = split.state
             /\ mLevel' = split.level
             /\ mLastGainReductionDB' = split.last
             /\ mTimeHeld' = split.held]_vars

\* A block of two frames on two channels after a block of one frame on the
\* same two channels: the first channel closes from where the block before
\* had left it (-2 dB, above the maximum reduction of -4 dB), and the
\* second channel does something else.
C31_Witness ==
  /\ call.unit = "trigger"
  /\ call.numChannels = 2
  /\ call.numFrames = 2
  /\ gate.oldChannels = 2
  /\ gate.oldFrames = 1
  /\ GetMaxGainReduction(mParams) = -4
  /\ gate.begin[1].last = -2
  /\ mGainReductionDB[1][1] = -3
  /\ mGainReductionDB[2] # mGainReductionDB[1]

(***************************************************************************)
(* SpecGateLive: a Trigger of one channel in a host that keeps calling     *)
(* Process with blocks of at least one frame.                              *)
(***************************************************************************)
\* A Process call of the Trigger with one channel and one of the given
\* frame counts.
LiveCall(frames) ==
  \E numFrames \in frames :
    \E kinds \in [1..1 -> GateKinds] : TriggerCall(1, numFrames, kinds)

NextLive == LiveCall(GateFrames)

SpecGateLive ==
  InitGate /\ [][NextLive]_vars /\ WF_vars(LiveCall(GateFrames \ {0}))

\* Channel c is MOVING with a gain reduction below 0 dB.
MovingBelowZero(c) ==
  /\ c <= Len(mState)
  /\ mState[c] = "MOVING"
  /\ mLastGainReductionDB[c] < 0

\* Channel c is HOLDING with a gain reduction of exactly 0 dB.
HoldingAtZero(c) ==
  /\ c <= Len(mState)
  /\ mState[c] = "HOLDING"
  /\ mLastGainReductionDB[c] = 0

\* The last Process call kept channel c, and the level of the channel was at
\* or above threshold on every sample of it.
LoudCall(c) ==
  /\ c <= Len(gate.steps)
  /\ Len(gate.begin) = gate.oldChannels
  /\ \A s \in 1..Len(gate.steps[c]) :
       LevelToDB(gate.steps[c][s].level) >= mParams.threshold

ChannelBefore(c, s) == IF s = 1 THEN gate.begin[c] ELSE gate.steps[c][s - 1]

\* One MOVING sample: from reduction last to reduction new, with the given
\* target.  The reduction moves toward the target and never past it, by at
\* most DOpen upward and at most -DClose downward; it moves whenever the
\* distance is two steps of the resolution or more, and stays when it is at
\* the target.
SlewStep(params, last, new, target) ==
  /\ last < target => /\ last <= new
                      /\ new <= target
                      /\ new - last <= DOpen(params)
  /\ last > target => /\ target <= new
                      /\ new <= last
                      /\ last - new <= 0 - DClose(params)
  /\ last = target => new = last
  /\ Abs(target - last) >= 2 => new # last

\* C12: on every sample processed in MOVING, the gain reduction moves toward
\* the target of the sample's level and never past it, rises by at most
\* |maxReduction| / (openTime * sampleRate), falls by at most
\* |maxReduction| / (closeTime * sampleRate), and does not change when it
\* equals the target.
C12_GateSlew ==
  call.unit = "trigger" =>
    \A c \in 1..Len(gate.steps) :
      \A s \in 1..Len(gate.steps[c]) :
        ChannelBefore(c, s).state = "MOVING" =>
          /\ gate.steps[c][s].last = mGainReductionDB[c][s]
          /\ SlewStep(mParams, ChannelBefore(c, s).last, gate.steps[c][s].last,
                      GetGainReduction(mParams,
                                       LevelToDB(gate.steps[c][s].level)))

\* A block of two frames in which a closed gate (-4 dB) opens: the first
\* step is held to DOpen (target -1 dB), the second is half the distance to
\* 0 dB; and a block in which a gate at -1 dB closes by DClose.
C12_Witness ==
  /\ call.unit = "trigger"
  /\ DOpen(mParams) = 2
  /\ \E c \in 1..Len(gate.steps) :
       /\ gate.begin[c].last = -4
       /\ mGainReductionDB[c] = <<-2, -1>>
  /\ \E c \in 1..Len(gate.steps) :
       /\ gate.begin[c].last = -1
       /\ mGainReductionDB[c] = <<-1, -3>>

(***************************************************************************)
(* SpecHold: a Trigger of one channel whose host calls SetParams between   *)
(* blocks.                                                                 *)
(***************************************************************************)
\* Trigger::SetParams
TriggerSetParams(params) ==
  /\ mParams' = params
  /\ call' = [call EXCEPT !.unit = "SetParams"]
  /\ UNCHANGED <<dspVars, histVars, rlfVars, mState, mLevel, mGainReductionDB,
                 mLastGainReductionDB, mTimeHeld, mGainListeners, gains, gate>>

\* The parameters of SpecGate, and a threshold of -100 dB with a ratio of
\* 0.02 (a level of -110 dB has a target of -2 dB).
HoldSettings ==
  TriggerSettings \cup
    {[threshold |-> -100, ratio |-> 2, openTime |-> 2, holdTime |-> 2, closeTime |-> 2]}

InitHold ==
  /\ InitGate
  /\ mParams \in HoldSettings

NextHold ==
  \/ \E numFrames \in GateFrames :
       \E kinds \in [1..1 -> GateKinds] : TriggerCall(1, numFrames, kinds)
  \/ \E params \in HoldSettings \ {mParams} : TriggerSetParams(params)

SpecHold == InitHold /\ [][NextHold]_vars

(***************************************************************************)
(* Trigger: the hold time.                                                 *)
(***************************************************************************)
\* Sample s of channel c in the last Trigger call follows a published
\* sample of the channel: an earlier sample of the block, or the last
\* sample of the block before.
Preceded(c, s) ==
  \/ s > 1
  \/ /\ gate.oldChannels = call.numChannels
     /\ gate.oldFrames >= 1

\* The published reduction was 0 dB at the sample before s and is negative
\* at s.
StartsClosing(c, s) ==
  /\ Preceded(c, s)
  /\ ChannelBefore(c, s).last = 0
  /\ mGainReductionDB[c][s] < 0

\* The hold timer has run its time: the channel was HOLDING with its level
\* below threshold on every sample of the holdTime window.
HeldOut(params, ch) ==
  /\ ch.state = "MOVING"
  /\ ch.held >= params.holdTime
  /\ LevelToDB(ch.level) < params.threshold

\* C26: with a maximum reduction below 0 dB, the published reduction of a
\* channel goes from 0 dB at one sample to a negative value at the next
\* only if the channel was HOLDING and its hold timer had just run out
\* (the level was below threshold on every sample of the holdTime window
\* before); a gate at 0 dB whose level was at or above threshold on the
\* sample before does not start closing.
C26_HoldHonoured ==
  (call.unit = "trigger" /\ GetMaxGainReduction(mParams) < 0) =>
    \A c \in 1..Len(gate.steps) :
      \A s \in 1..Len(gate.steps[c]) :
        StartsClosing(c, s) => HeldOut(mParams, ChannelBefore(c, s))

(***************************************************************************)
(* SpecSteady: one unit (an Impulse Response engine, a recursive filter or *)
(* a Trigger) called with shapes that repeat and shapes that change.       *)
(***************************************************************************)
\* The longest stream given to the engine in SpecSteady.
MaxSteadyFed == 6

\* The class of the unit the run was constructed with.
UnitClass ==
  IF mWavState = "SUCCESS" THEN "ir"
  ELSE IF mInputCoefficients # <<>> THEN "rlf"
  ELSE "gate"

\* DSP::_PrepareBuffers: the storage the call resizes or reallocates.
OutputResizes(outs, size, numChannels, numFrames) ==
  LET oldFrames == GetNumFrames(outs)
      oldChannels == GetNumChannels(outs)
      resizeChannels == oldChannels # numChannels
      resizeFrames == ResizeFrames(oldChannels, oldFrames, numChannels, numFrames)
  IN  (IF resizeChannels THEN {"mOutputs"} ELSE {})
      \cup (IF resizeChannels /\ size # numChannels THEN {"mOutputPointers"} ELSE {})
      \cup (IF resizeFrames /\ numChannels > 0 THEN {"mOutputs[c]"} ELSE {})

\* History::_EnsureHistorySize
HistoryResizes(history, index, required, numFrames) ==
  IF EnsureHistorySize(history, index, required, numFrames).grown
    THEN {"mHistory"} ELSE {}

\* Base::_PrepareBuffers
FilterResizes(outs, numChannels) ==
  IF GetNumChannels(outs) # numChannels
    THEN {"mInputHistory", "mOutputHistory"} \cup
         (IF numChannels > 0 THEN {"mInputHistory[c]", "mOutputHistory[c]"} ELSE {})
    ELSE {}

\* Trigger::_PrepareBuffers
TriggerResizes(outs, matrix, numChannels, numFrames) ==
  LET oldChannels == GetNumChannels(outs)
      oldFrames == GetNumFrames(outs)
      updateChannels == numChannels # oldChannels
      updateFrames == updateChannels \/ (numFrames # oldFrames)
      rows == IF updateChannels THEN numChannels ELSE Len(matrix)
  IN  (IF updateChannels
         THEN {"mGainReductionDB", "mLastGainReductionDB", "mState", "mLevel",
               "mTimeHeld"}
         ELSE {})
      \cup (IF updateFrames /\ rows > 0 THEN {"mGainReductionDB[i]"} ELSE {})

\* What a Process call of the unit, made in this state, resizes.
Resizes(numChannels, numFrames) ==
  OutputResizes(mOutputs, mOutputPointersSize, numChannels, numFrames)
  \cup (IF UnitClass = "ir"
          THEN HistoryResizes(mHistory, mHistoryIndex, mHistoryRequired, numFrames)
          ELSE {})
  \cup (IF UnitClass = "rlf" THEN FilterResizes(mOutputs, numChannels) ELSE {})
  \cup (IF UnitClass = "gate"
          THEN TriggerResizes(mOutputs, mGainReductionDB, numChannels, numFrames)
          ELSE {})

InitSteady == InitIRFault \/ InitRLF \/ InitChain

NextSteady ==
  \/ /\ UnitClass = "ir"
     /\ \E numChannels \in IRChannels, numFrames \in 0..MaxBlock :
          /\ Len(fed) + numFrames <= MaxSteadyFed
          /\ IRProcess(numChannels, numFrames)
  \/ /\ UnitClass = "ir"
     /\ \E numFrames \in 0..MaxBlock : IRFault(numFrames)
  \/ /\ UnitClass = "rlf"
     /\ \E numChannels \in RLFChannels, numFrames \in 0..MaxRLFBlock :
          /\ RLFGiven(numChannels) + numFrames <= MaxRLFSamples
          /\ RLFProcess(numChannels, numFrames,
                        RLFBlock([s \in 1..numFrames |-> "finite"],
                                 RLFGiven(numChannels), numChannels))
  \/ /\ UnitClass = "gate"
     /\ \E numChannels \in GateChannels, numFrames \in GateFrames, kind \in ChainKinds :
          TriggerCall(numChannels, numFrames, [c \in 1..numChannels |-> kind])

SpecSteady == InitSteady /\ [][NextSteady]_vars

\* A step is a Process call with the shape of the call before it.
SteadyCall ==
  /\ call.unit # "none"
  /\ call'.unit = call.unit
  /\ call'.numChannels = call.numChannels
  /\ call'.numFrames = call.numFrames

\* C20: a Process call with the (numChannels, numFrames) of the call before
\* it on the same unit resizes no output storage, does not reallocate the
\* pointer array, and resizes neither the history ring, nor the filter
\* histories, nor the Trigger's matrix and per-channel state vectors.
C20_SteadyState ==
  [][SteadyCall => Resizes(call'.numChannels, call'.numFrames) = {}]_vars

\* A Trigger call of two channels and two frames on buffers that the call
\* before it had left with that shape.
C20_Witness ==
  /\ call.unit = "trigger"
  /\ call.fault = "none"
  /\ gate.calls >= 2
  /\ call.numChannels = 2
  /\ call.numFrames = 2
  /\ gate.oldChannels = call.numChannels
  /\ gate.oldFrames = call.numFrames

(***************************************************************************)
(* SpecStale: a Trigger with Gain unit 1 as its listener and Gain unit 2   *)
(* fed by the host, which calls Process on the units in any order.         *)
(***************************************************************************)
StaleShapes == {<<0, 1>>, <<1, 2>>}

\* The matrices the host sets: one channel of two frames, two of one.
HostMatrices == {<<<<-3, 0>>>>, <<<<0>>, <<-3>>>>}

NextStale ==
  \/ /\ gate.calls < MaxChainCalls
     /\ \E shape \in StaleShapes, kind \in ChainKinds :
          TriggerCall(shape[1], shape[2], [c \in 1..shape[1] |-> kind])
  \/ AddListener(1)
  \/ /\ gate.calls < MaxChainCalls
     /\ \E g \in Gains :
          \E shape \in {<<call.numChannels, call.numFrames>>, <<1, 2>>} :
            GainCall(g, shape[1], shape[2], -2)
  \/ \E gainReductionDB \in HostMatrices : SetGainReductionDB(2, gainReductionDB)

SpecStale == InitChain /\ [][NextStale]_vars

\* The matrix of Gain unit g changes in this step only by a Process call of
\* the Trigger it listens to or by SetGainReductionDB.
MatrixChangesByPublishOrSet(g) ==
  gains'[g].mGainReductionDB # gains[g].mGainReductionDB =>
    \/ call'.unit = "trigger" /\ g \in mGainListeners
    \/ call'.unit = "set"

\* A Gain::Process that does not follow a Trigger::Process of its shape, on
\* a matrix of the call's shape, raises no fault and scales the input by the
\* matrix the unit holds; for the channel counts given.
StaleGain(channelCounts) ==
  (/\ call.unit = "gain"
   /\ ~call.follows
   /\ call.numChannels \in channelCounts
   /\ IsShape(gains[call.gain].mGainReductionDB, call.numChannels, call.numFrames)) =>
    /\ call.fault = "none"
    /\ gains[call.gain].mOutputs =
         GainOutput(call.inputs, gains[call.gain].mGainReductionDB)

\* C23: the matrix a Gain unit holds changes only when a Trigger it listens
\* to completes a Process call or SetGainReductionDB is called (Gain.Process
\* and other changes of the Trigger leave it alone), and a Gain.Process made
\* without a preceding Trigger.Process applies the matrix it holds without
\* fault when the shape is the same, for every shape.
C23_NoAliasingStaleness ==
  /\ [][\A g \in Gains : MatrixChangesByPublishOrSet(g)]_vars
  /\ []StaleGain(GateChannels)

\* C23, amended: as C23, the Gain.Process made without a preceding
\* Trigger.Process being without fault when the shape is the same and has at
\* least one channel.
C23_NoAliasingStalenessWithChannels ==
  /\ [][\A g \in Gains : MatrixChangesByPublishOrSet(g)]_vars
  /\ []StaleGain(GateChannels \ {0})

\* A registered Gain unit processed a second time after one Trigger block of
\* one channel and two frames: it applies that block's reductions again.
C23_Witness ==
  /\ call.unit = "gain"
  /\ ~call.follows
  /\ call.fault = "none"
  /\ call.gain \in gate.published
  /\ call.numChannels = 1
  /\ call.numFrames = 2
  /\ gains[call.gain].mGainReductionDB = <<<<-2, -1>>>>
  /\ gains[call.gain].mOutputs = GainOutput(call.inputs, <<<<-2, -1>>>>)

(***************************************************************************)
(* Trigger: the output block.                                              *)
(***************************************************************************)
\* C24: after every Process call of a Trigger, the output block equals the
\* input block sample for sample on every channel.
C24_PassThrough ==
  call.unit = "trigger" =>
    /\ Len(mOutputs) = call.numChannels
    /\ mOutputs = gate.inputs

\* A block of two channels and two frames whose channels differ, handed to
\* a Trigger that had processed a block before.
C24_Witness ==
  /\ call.unit = "trigger"
  /\ gate.count >= 2
  /\ call.numChannels = 2
  /\ call.numFrames = 2
  /\ mOutputs[1] # mOutputs[2]
  /\ mOutputs[1][2] # 0
  /\ mOutputs = gate.inputs

(***************************************************************************)
(* SpecDSP: a Block Processor whose Process prepares the buffers, writes   *)
(* one sample per channel and frame, and returns the pointers.             *)
(***************************************************************************)
DSPProcess(numChannels, numFrames, fill) ==
  LET prepared == PrepareOutputs(mOutputs, numChannels, numFrames)
      p == PreparePointers(mOutputs, mOutputPointers, mOutputPointersSize,
                           numChannels, numFrames)
      written == [c \in 1..Len(prepared) |->
                    IF c <= numChannels
                      THEN [s \in 1..Len(prepared[c]) |->
                              IF s <= numFrames THEN fill[c] ELSE prepared[c][s]]
                      ELSE prepared[c]]
  IN  /\ ~p.fault
      /\ mOutputs' = written
      /\ mOutputPointers' = GetPointers(written, p.ptrs)
      /\ mOutputPointersSize' = p.size
      /\ call' = [unit |-> "dsp", numChannels |-> numChannels,
                  numFrames |-> numFrames, fault |-> "none"]
      /\ UNCHANGED <<histVars, rlfVars, gateVars>>

InitDSP == DSPInit /\ HistIdle /\ RLFIdle /\ GateIdle

NextDSP ==
  \E numChannels \in Channels, numFrames \in Frames :
    \E fill \in [1..numChannels -> Samples] :
      DSPProcess(numChannels, numFrames, fill)

SpecDSP == InitDSP /\ [][NextDSP]_vars

(***************************************************************************)
(* Shape of the output after a call.                                       *)
(***************************************************************************)
OutputShapeIs(numChannels, numFrames) ==
  /\ Len(mOutputs) = numChannels
  /\ \A c \in 1..Len(mOutputs) : Len(mOutputs[c]) = numFrames
  /\ mOutputPointersSize = numChannels
  /\ Len(mOutputPointers.slots) = numChannels
  /\ \A c \in 1..Len(mOutputPointers.slots) : mOutputPointers.slots[c] = c

\* C1: after every Process call the output storage has exactly numChannels
\* channels of exactly numFrames samples, and the pointer array has
\* numChannels entries, entry c pointing at channel c.
C1_OutputShape ==
  call.unit # "none" => OutputShapeIs(call.numChannels, call.numFrames)

\* A call that adds channels to storage that already had the requested
\* frame count, and a later call down to zero channels.
C1_Witness ==
  /\ call.unit = "dsp"
  /\ call.numChannels = 3
  /\ call.numFrames = 2
  /\ mOutputs[3] = <<2, 2>>
  /\ mOutputs[1] = <<1, 1>>

(***************************************************************************)
(* The pointer array across calls.                                         *)
(***************************************************************************)
\* _PrepareBuffers of a call with the given shape would raise "Tried to
\* re-allocate over non-null mOutputPointers" in the present state.
RaisesReallocFault(numChannels, numFrames) ==
  PreparePointers(mOutputs, mOutputPointers, mOutputPointersSize,
                  numChannels, numFrames).fault

\* C30: through Process the pointer array is always deallocated before it
\* is allocated again: in no state reached by Process calls of any channel
\* counts (0 included) does a further call of any shape raise the
\* re-allocation fault, and the recorded size of the pointer array equals
\* the number of output channels.
C30_NoReallocFault ==
  /\ \A numChannels \in Channels, numFrames \in Frames :
       ~RaisesReallocFault(numChannels, numFrames)
  /\ mOutputPointersSize = Len(mOutputs)
  /\ mOutputPointers.allocated => Len(mOutputPointers.slots) = mOutputPointersSize

\* A call with zero channels after a call with channels: the array was
\* freed and allocated again, with no entries.
C30_Witness ==
  /\ call.unit = "dsp"
  /\ call.numChannels = 0
  /\ mOutputPointers.allocated
  /\ mOutputPointersSize = 0
  /\ mOutputs = <<>>

====
